---------------------------- MODULE Spec2Model ----------------------------
(***************************************************************************)
(* RPGCompanion: the session turn/state coordinator.                       *)
(*                                                                         *)
(* The model follows the latest revision of the server: the storage        *)
(* classes MemStorage and DatabaseStorage (src/unnamed/part_004, from line *)
(* 177) and the request handlers registered by registerRoutes              *)
(* (src/unnamed/part_005, from line 571).                                  *)
(*                                                                         *)
(* `storage' is the exported storage object.  Which class it is an         *)
(* instance of is decided once, at start-up, by DATABASE_URL.  Storage     *)
(* methods are operators from a storage value to a storage value; the      *)
(* request handlers are the actions.  With MemStorage no handler awaits    *)
(* real I/O, so a handler runs to completion before the next request is    *)
(* dispatched: Spec takes each handler as one step.  With DatabaseStorage  *)
(* every statement sent to the database is a point where another request   *)
(* may run: SpecConc takes the handlers one statement at a time.           *)
(***************************************************************************)
EXTENDS Integers, Sequences, FiniteSets, TLC

VARIABLES
    storage,   \* the storage object: its maps / tables and its id counters
    now,       \* the wall clock read by `new Date()' (joinedAt)
    users,     \* number of users made by createUniqueUser so far
    resp,      \* the last completed request: what it was, its response, its broadcasts
    inflight,  \* SpecConc: the requests being served; SpecBackends: the storage calls made;
               \* SpecRace: the requests of a race, being served or answered
    sockets,   \* the WebSocket connections: readyState, and the sessions each asked to join
    sessionConnections,  \* the server's Map<sessionId, Set<WebSocket>>, as pairs
    wire,      \* what the last step sent: the set of [ws, message] handed to ws.send
    client     \* a browser tab: the vowels it shows and the last word it generated

vars == <<storage, now, users, resp, inflight, sockets, sessionConnections, wire, client>>

-----------------------------------------------------------------------------
(* Bounds of the model *)

MaxUsers == 4
MaxSessions == 1
MaxTurn == 2
MaxWordId == 6
PrepUsers == 3
PrepTurn == 2
PrepWordId == 6
WordUsers == 3
WordSessions == 2
WordIdMax == 4
WordOwnerRows == 3
ConcUsers == 3
ConcRequests == 2
ConcTurn == 2
ConcWordId == 2
ConcOwnerRows == 2
NerveUsers == 3
NerveWordId == 2
NerveOwnerRows == 2
DefineUsers == 1
DefineWordId == 5
DefineOwnerRows == 2
FullUsers == 7
MaxSockets == 2
SocketUsers == 3
SocketSessions == 2
StorageUsers == 3
StorageTurn == 2
MaxCalls == 3
RaceUsers == 3
RaceWordId == 1
RaceOwnerRows == 2
PlayUsers == 3
PlayTurn == 2
PlayPrepTurn == 4
PlayWordId == 2
PlayOwnerRows == 1

-----------------------------------------------------------------------------
(* JavaScript values *)

\* null / undefined of a number-valued field
NullInt == -99
\* null of a string-valued field, undefined of a request field
NullStr == "null"
Undefined == "undefined"

\* x || d on numbers: 0, null and undefined are falsy
OrInt(x, d) == IF x = NullInt \/ x = 0 THEN d ELSE x
\* truthiness of a string-valued request field or column
Truthy(s) == s \notin {NullStr, Undefined, ""}
\* x || d on strings
OrStr(s, d) == IF Truthy(s) THEN s ELSE d

\* an array: its elements are values, computed once
Array(f) == f \o <<>>

Max(a, b) == IF a >= b THEN a ELSE b
Min(a, b) == IF a <= b THEN a ELSE b

\* A nerve is a JavaScript number, and the request that sets it accepts any
\* number from 0 to 8 (z.number()), 7.5 as well as 7.  The model counts nerve
\* in halves: Num(n) is the whole number n, and an odd value is n + 0.5.
Num(n) == n + n
\* Number.isInteger; what an integer column of the database accepts
IsInteger(x) == x % 2 = 0

\* Array.prototype.sort with a comparator Before(a, b) <=> cmp(a, b) < 0.  The
\* sort is stable: elements the comparator does not separate keep their order.
\* (The comparators of the program compare numeric keys: strict weak orders.)
StableSort(seq, Before(_, _)) ==
    LET n == Len(seq)
        rank(i) == Cardinality({j \in 1..n :
                        \/ Before(seq[j], seq[i])
                        \/ (~Before(seq[i], seq[j]) /\ j < i)})
    IN  Array([k \in 1..n |-> seq[CHOOSE i \in 1..n : rank(i) = k - 1]])

\* Array.prototype.findIndex, 1-based; 0 when no element satisfies P
FindIndex(seq, P(_)) ==
    IF \E i \in 1..Len(seq) : P(seq[i])
    THEN CHOOSE i \in 1..Len(seq) : P(seq[i]) /\ \A j \in 1..(i - 1) : ~P(seq[j])
    ELSE 0

Range(seq) == {seq[i] : i \in 1..Len(seq)}

-----------------------------------------------------------------------------
(* The storage object *)

StorageKinds == {"MemStorage", "DatabaseStorage"}

\* MemStorage's field initialisers; the empty tables of DatabaseStorage.
\* MemStorage has one counter for session ids and player ids (joinSession
\* uses sessionCounter); the database has one serial per table.
NewStorage(kind) ==
    [kind           |-> kind,
     sessions       |-> <<>>,
     sessionPlayers |-> <<>>,
     words          |-> <<>>,
     wordOwners     |-> <<>>,
     sessionCounter |-> 1,
     playerCounter  |-> 1,
     wordCounter    |-> 1]

IsMem(st) == st.kind = "MemStorage"

\* --- sessions ---

HasSession(st, id) == \E i \in 1..Len(st.sessions) : st.sessions[i].id = id

getGameSession(st, id) ==
    st.sessions[FindIndex(st.sessions, LAMBDA s : s.id = id)]

\* Array.find over the map's values: the first session stored with the code
HasSessionWithCode(st, code) ==
    \E i \in 1..Len(st.sessions) : st.sessions[i].code = code /\ (IsMem(st) \/ st.sessions[i].isActive)

getGameSessionByCode(st, code) ==
    st.sessions[FindIndex(st.sessions,
                          LAMBDA s : s.code = code /\ (IsMem(st) \/ s.isActive))]

\* game_sessions.code is UNIQUE in the database: the insert is rejected.
\* MemStorage makes no such check.
createGameSessionThrows(st, code) ==
    /\ ~IsMem(st)
    /\ \E i \in 1..Len(st.sessions) : st.sessions[i].code = code

createGameSession(st, code, gmId) ==
    IF createGameSessionThrows(st, code)
    THEN [st EXCEPT !.sessionCounter = @ + 1]   \* the serial is consumed all the same
    ELSE [st EXCEPT
            !.sessionCounter = @ + 1,
            !.sessions = Append(@,
                [id                       |-> st.sessionCounter,
                 code                     |-> code,
                 gmId                     |-> gmId,
                 encounterSentence        |-> NullStr,
                 encounterNoun            |-> NullStr,
                 encounterVerb            |-> NullStr,
                 encounterAdjective       |-> NullStr,
                 encounterThreat          |-> NullInt,
                 encounterDifficulty      |-> NullInt,
                 encounterLength          |-> NullInt,
                 isPrepTurn               |-> FALSE,
                 currentPrepWordIndex     |-> 0,
                 currentPrepWordTurnCount |-> 0,
                 currentTurn              |-> 1,
                 isActive                 |-> TRUE,
                 prepWordMeanings         |-> {}])]

\* A field of encounterData that is undefined (NullInt, Undefined,
\* "undefined") leaves the column as it is; sentence is always written.
updateEncounter(st, sessionId, d) ==
    [st EXCEPT !.sessions = Array([i \in DOMAIN st.sessions |-> LET e == st.sessions[i] IN
        IF e.id # sessionId THEN e
        ELSE [e EXCEPT
                !.encounterSentence   = d.sentence,
                !.encounterThreat     = IF d.threat # NullInt THEN d.threat ELSE @,
                !.encounterDifficulty = IF d.difficulty # NullInt THEN d.difficulty ELSE @,
                !.encounterLength     = IF d.length # NullInt THEN d.length ELSE @,
                !.encounterNoun       = IF d.noun # Undefined THEN d.noun ELSE @,
                !.encounterVerb       = IF d.verb # Undefined THEN d.verb ELSE @,
                !.encounterAdjective  = IF d.adjective # Undefined THEN d.adjective ELSE @,
                !.isPrepTurn          = IF d.isPrepTurn # "undefined"
                                        THEN d.isPrepTurn = "true" ELSE @,
                !.currentPrepWordIndex =
                    IF d.currentPrepWordIndex # NullInt THEN d.currentPrepWordIndex ELSE @,
                !.currentPrepWordTurnCount =
                    IF d.currentPrepWordTurnCount # NullInt
                    THEN d.currentPrepWordTurnCount ELSE @]])]

\* encounterData with only the sentence given
EncounterData(sentence) ==
    [sentence |-> sentence, threat |-> NullInt, difficulty |-> NullInt,
     length |-> NullInt, noun |-> Undefined, verb |-> Undefined,
     adjective |-> Undefined, isPrepTurn |-> "undefined",
     currentPrepWordIndex |-> NullInt, currentPrepWordTurnCount |-> NullInt]

\* --- players ---

InSession(sessionId, p) == p.sessionId = sessionId
IsPlayer(sessionId, userId, p) == p.sessionId = sessionId /\ p.userId = userId

\* MemStorage: player.nerve || 8, player.turnOrder || null, and the id comes
\* from sessionCounter.  DatabaseStorage inserts the values as given.
joinSession(st, sessionId, userId, nerve, maxNerve, turnOrder, joinedAt) ==
    LET p == [id           |-> IF IsMem(st) THEN st.sessionCounter ELSE st.playerCounter,
              sessionId    |-> sessionId,
              userId       |-> userId,
              nerve        |-> IF IsMem(st) THEN OrInt(nerve, Num(8)) ELSE nerve,
              maxNerve     |-> IF IsMem(st) THEN OrInt(maxNerve, Num(8)) ELSE maxNerve,
              turnOrder    |-> IF IsMem(st) THEN OrInt(turnOrder, NullInt) ELSE turnOrder,
              isActive     |-> TRUE,
              isActiveTurn |-> FALSE,
              joinedAt     |-> joinedAt]
        at == FindIndex(st.sessionPlayers, LAMBDA q : IsPlayer(sessionId, userId, q))
    IN  IF IsMem(st)
        THEN [st EXCEPT
                !.sessionCounter = @ + 1,
                \* Map.set: a key already present keeps its place
                !.sessionPlayers = IF at = 0 THEN Append(@, p) ELSE [@ EXCEPT ![at] = p]]
        ELSE [st EXCEPT
                !.playerCounter = @ + 1,
                !.sessionPlayers = Append(@, p)]

\* MemStorage sorts by (turnOrder || 0); the database orders by turn_order,
\* where NULL sorts last.
TurnOrderBefore(st, a, b) ==
    IF IsMem(st)
    THEN OrInt(a.turnOrder, 0) < OrInt(b.turnOrder, 0)
    ELSE /\ a.turnOrder # NullInt
         /\ (b.turnOrder = NullInt \/ a.turnOrder < b.turnOrder)

getSessionPlayers(st, sessionId) ==
    StableSort(SelectSeq(st.sessionPlayers, LAMBDA p : InSession(sessionId, p) /\ p.isActive),
               LAMBDA a, b : TurnOrderBefore(st, a, b))

HasPlayerInSession(st, sessionId, userId) ==
    \E i \in 1..Len(st.sessionPlayers) : IsPlayer(sessionId, userId, st.sessionPlayers[i])

getPlayerInSession(st, sessionId, userId) ==
    st.sessionPlayers[FindIndex(st.sessionPlayers, LAMBDA p : IsPlayer(sessionId, userId, p))]

\* session_players.nerve is an integer column: the database refuses the
\* UPDATE of a number that is not whole.  MemStorage stores what it is given.
updatePlayerNerveThrows(st, nerve) == ~IsMem(st) /\ ~IsInteger(nerve)

updatePlayerNerve(st, sessionId, userId, nerve) ==
    [st EXCEPT !.sessionPlayers = Array([i \in DOMAIN st.sessionPlayers |-> LET e == st.sessionPlayers[i] IN
        IF IsPlayer(sessionId, userId, e) THEN [e EXCEPT !.nerve = nerve] ELSE e])]

\* --- turn order ---

\* a setActiveTurn that does not take the turn from the others
KeepActiveTurns(st, sessionId) == st

ClearActiveTurns(st, sessionId) ==
    [st EXCEPT !.sessionPlayers = Array([i \in DOMAIN st.sessionPlayers |-> LET e == st.sessionPlayers[i] IN
        IF InSession(sessionId, e) THEN [e EXCEPT !.isActiveTurn = FALSE] ELSE e])]

MarkActiveTurn(st, sessionId, userId) ==
    [st EXCEPT !.sessionPlayers = Array([i \in DOMAIN st.sessionPlayers |-> LET e == st.sessionPlayers[i] IN
        IF IsPlayer(sessionId, userId, e) THEN [e EXCEPT !.isActiveTurn = TRUE] ELSE e])]

\* clear every flag of the session, then set the one of userId
setActiveTurn(st, sessionId, userId) ==
    MarkActiveTurn(ClearActiveTurns(st, sessionId), sessionId, userId)

\* the players advanceToNextPlayer walks through, by turn order
TurnPlayers(st, sessionId) ==
    StableSort(SelectSeq(st.sessionPlayers,
                         LAMBDA p : InSession(sessionId, p) /\ (IsMem(st) \/ p.isActive)),
               LAMBDA a, b : TurnOrderBefore(st, a, b))

advanceToNextPlayerThrows(st, sessionId) ==
    \/ ~HasSession(st, sessionId)
    \/ TurnPlayers(st, sessionId) = <<>>

\* CurrentIndex finding no active player
NoCurrentIndex(players) == -1

\* players.find(p => p.isActiveTurn), then findIndex by its userId; -1 when
\* nobody is active.  0-based, as in the source.
CurrentIndex(players) ==
    LET a == FindIndex(players, LAMBDA p : p.isActiveTurn)
    IN  IF a = 0 THEN -1
        ELSE FindIndex(players, LAMBDA p : p.userId = players[a].userId) - 1

\* what advanceToNextPlayer returns
advanceResult(st, sessionId) ==
    LET players == TurnPlayers(st, sessionId)
        wrap    == CurrentIndex(players) + 1 >= Len(players)
        next    == IF wrap THEN 0 ELSE CurrentIndex(players) + 1
    IN  [nextPlayerId |-> players[next + 1].userId, turnIncremented |-> wrap]

\* A faulty advanceToNextPlayer: the turn counter moves on every call, not
\* only when the order wraps around.
advanceCountingEveryCall(st, sessionId) ==
    LET r  == advanceResult(st, sessionId)
        s1 == [st EXCEPT !.sessions = Array([i \in DOMAIN st.sessions |-> LET e == st.sessions[i] IN
                  IF e.id = sessionId THEN [e EXCEPT !.currentTurn = OrInt(@, 1) + 1] ELSE e])]
    IN  setActiveTurn(s1, sessionId, r.nextPlayerId)

\* defined when advanceToNextPlayerThrows is false
advanceToNextPlayer(st, sessionId) ==
    LET r  == advanceResult(st, sessionId)
        s1 == IF r.turnIncremented
              THEN [st EXCEPT !.sessions = Array([i \in DOMAIN st.sessions |-> LET e == st.sessions[i] IN
                      IF e.id = sessionId
                      THEN [e EXCEPT !.currentTurn = OrInt(@, 1) + 1]
                      ELSE e])]
              ELSE st
    IN  setActiveTurn(s1, sessionId, r.nextPlayerId)

\* DatabaseStorage throws "Session not found"; MemStorage skips the session
resetTurnsForNewEncounterThrows(st, sessionId) == ~IsMem(st) /\ ~HasSession(st, sessionId)

resetTurnsForNewEncounter(st, sessionId) ==
    ClearActiveTurns(
        [st EXCEPT !.sessions = Array([i \in DOMAIN st.sessions |-> LET e == st.sessions[i] IN
            IF e.id = sessionId THEN [e EXCEPT !.currentTurn = 1] ELSE e])],
        sessionId)

\* A faulty comparator: the lowest nerve first.
NerveAscending(a, b) ==
    \/ OrInt(a.nerve, 0) < OrInt(b.nerve, 0)
    \/ (OrInt(a.nerve, 0) = OrInt(b.nerve, 0) /\ a.joinedAt < b.joinedAt)

\* nerve, highest first; then joinedAt, earliest first
NerveBefore(a, b) ==
    \/ OrInt(a.nerve, 0) > OrInt(b.nerve, 0)
    \/ (OrInt(a.nerve, 0) = OrInt(b.nerve, 0) /\ a.joinedAt < b.joinedAt)

\* the players recalculateTurnOrder numbers, in their new order
PlayersByNerve(st, sessionId) ==
    StableSort(SelectSeq(st.sessionPlayers,
                         LAMBDA p : InSession(sessionId, p) /\ (IsMem(st) \/ p.isActive)),
               LAMBDA a, b : NerveBefore(a, b))

\* one player's turnOrder is written
SetTurnOrder(st, sessionId, userId, turnOrder) ==
    [st EXCEPT !.sessionPlayers = Array([i \in DOMAIN st.sessionPlayers |-> LET e == st.sessionPlayers[i] IN
        IF IsPlayer(sessionId, userId, e) THEN [e EXCEPT !.turnOrder = turnOrder] ELSE e])]

recalculateTurnOrder(st, sessionId) ==
    LET sorted == PlayersByNerve(st, sessionId)
        indexOf(userId) == FindIndex(sorted, LAMBDA p : p.userId = userId) - 1
    IN  [st EXCEPT !.sessionPlayers = Array([i \in DOMAIN st.sessionPlayers |-> LET e == st.sessionPlayers[i] IN
            IF InSession(sessionId, e) /\ (IsMem(st) \/ e.isActive)
            THEN [e EXCEPT !.turnOrder = indexOf(e.userId)]
            ELSE e])]

\* Math.max(...players.map(p => p.turnOrder || 0), -1), where players are all
\* the players of the session: the one being added is among them
MaxTurnOrder(st, sessionId) ==
    LET orders == {OrInt(st.sessionPlayers[i].turnOrder, 0) :
                      i \in {j \in 1..Len(st.sessionPlayers) :
                                /\ InSession(sessionId, st.sessionPlayers[j])
                                /\ (IsMem(st) \/ st.sessionPlayers[j].isActive)}}
    IN  CHOOSE m \in orders \cup {-1} : \A o \in orders \cup {-1} : o <= m

\* a join that sorts the whole session again instead of appending
addPlayerByNerve(st, sessionId, userId) == recalculateTurnOrder(st, sessionId)

addPlayerToTurnOrder(st, sessionId, userId) ==
    SetTurnOrder(st, sessionId, userId, MaxTurnOrder(st, sessionId) + 1)

\* --- words ---

\* word.potency || null: a potency of 0 is stored as null
createWord(st, w) ==
    [st EXCEPT
        !.wordCounter = @ + 1,
        !.words = Append(@,
            [id         |-> st.wordCounter,
             word       |-> w.word,
             sessionId  |-> w.sessionId,
             meaning    |-> w.meaning,
             category   |-> OrStr(w.category, "noun"),
             potency    |-> OrInt(w.potency, NullInt),
             isApproved |-> w.isApproved])]

\* the word createWord(st, w) returns
createdWord(st, w) == createWord(st, w).words[Len(st.words) + 1]

getSessionWords(st, sessionId) == SelectSeq(st.words, LAMBDA w : w.sessionId = sessionId)

HasWord(st, wordId) == \E i \in 1..Len(st.words) : st.words[i].id = wordId

getWord(st, wordId) == st.words[FindIndex(st.words, LAMBDA w : w.id = wordId)]

\* MemStorage throws "Word not found"; the database's UPDATE matches no row
\* and the method returns undefined
approveWordThrows(st, wordId) == IsMem(st) /\ ~HasWord(st, wordId)

approveWord(st, wordId, potency) ==
    [st EXCEPT !.words = Array([i \in DOMAIN st.words |-> LET e == st.words[i] IN
        IF e.id = wordId
        THEN [e EXCEPT !.potency = potency, !.isApproved = TRUE]
        ELSE e])]

\* getPendingWords taking the words that are not approved
getUnapprovedWords(st, sessionId) ==
    SelectSeq(st.words, LAMBDA w : w.sessionId = sessionId /\ ~w.isApproved)

getPendingWords(st, sessionId) ==
    SelectSeq(st.words, LAMBDA w : w.sessionId = sessionId /\ w.potency = NullInt)

deleteWord(st, wordId) ==
    [st EXCEPT
        !.words = SelectSeq(@, LAMBDA w : w.id # wordId),
        !.wordOwners = SelectSeq(@, LAMBDA o : o.wordId # wordId)]

\* MemStorage keeps a Set per word.  word_owners has no unique index on
\* (word_id, owner_id), so the database's ON CONFLICT DO NOTHING never finds
\* a conflict and the row is inserted again.
addWordOwner(st, wordId, ownerId) ==
    IF IsMem(st) /\ \E i \in 1..Len(st.wordOwners) :
                        st.wordOwners[i] = [wordId |-> wordId, ownerId |-> ownerId]
    THEN st
    ELSE [st EXCEPT !.wordOwners = Append(@, [wordId |-> wordId, ownerId |-> ownerId])]

\* the owner ids, in the order they were added
getWordOwners(st, wordId) ==
    LET rows == SelectSeq(st.wordOwners, LAMBDA o : o.wordId = wordId)
    IN  Array([i \in 1..Len(rows) |-> rows[i].ownerId])

HasWordWithText(st, sessionId, wordText) ==
    \E i \in 1..Len(st.words) :
        st.words[i].sessionId = sessionId /\ st.words[i].word = wordText

findWordByText(st, sessionId, wordText) ==
    st.words[FindIndex(st.words, LAMBDA w : w.sessionId = sessionId /\ w.word = wordText)]

\* MemStorage changes the first word with the text (break); the database's
\* UPDATE changes every row with it
updateWordMeaning(st, word, meaning, sessionId) ==
    LET first == FindIndex(st.words, LAMBDA w : w.sessionId = sessionId /\ w.word = word)
    IN  [st EXCEPT !.words = Array([i \in DOMAIN st.words |-> LET e == st.words[i] IN
            IF e.sessionId = sessionId /\ e.word = word /\ (~IsMem(st) \/ i = first)
            THEN [e EXCEPT !.meaning = meaning]
            ELSE e])]

updateWordPotency(st, word, potency, sessionId) ==
    LET first == FindIndex(st.words, LAMBDA w : w.sessionId = sessionId /\ w.word = word)
    IN  [st EXCEPT !.words = Array([i \in DOMAIN st.words |-> LET e == st.words[i] IN
            IF e.sessionId = sessionId /\ e.word = word /\ (~IsMem(st) \/ i = first)
            THEN [e EXCEPT !.potency = potency]
            ELSE e])]

setPrepWordMeaning(st, sessionId, word, meaning) ==
    [st EXCEPT !.sessions = Array([i \in DOMAIN st.sessions |-> LET e == st.sessions[i] IN
        IF e.id = sessionId
        THEN [e EXCEPT !.prepWordMeanings =
                {m \in @ : m.word # word} \cup {[word |-> word, meaning |-> meaning]}]
        ELSE e])]

-----------------------------------------------------------------------------
(* The request layer *)

\* a message with a type only the client knows
EventNamedByClient(type, sessionId, userId, value) ==
    [type |-> "potency_set", sessionId |-> sessionId, userId |-> userId, value |-> value]

\* a message handed to broadcastToSession(sessionId, {type, data})
Event(type, sessionId, userId, value) ==
    [type |-> type, sessionId |-> sessionId, userId |-> userId, value |-> value]

\* a completed request: op and the request's session and caller, the HTTP
\* status, and the messages it broadcast, in order.  flag and ref carry the
\* part of the JSON body the properties read (isExisting, isNewEncounter,
\* turnIncremented; the word id, the next player's id).
Response(op, sessionId, userId, status, flag, ref, events) ==
    [op |-> op, sessionId |-> sessionId, userId |-> userId, status |-> status,
     flag |-> flag, ref |-> ref, events |-> events]

NoResponse == Response("none", 0, 0, 0, FALSE, 0, <<>>)

\* broadcastToSession without the readyState test
broadcastToEveryClient(sessionId, message) ==
    {[ws |-> c, message |-> message] : c \in {c \in DOMAIN sockets : <<sessionId, c>> \in sessionConnections}}

\* broadcastToSession(sessionId, message): the ws.send calls it makes
broadcastToSession(sessionId, message) ==
    LET clients == {c \in DOMAIN sockets : <<sessionId, c>> \in sessionConnections}
    IN  {[ws |-> c, message |-> message] : c \in {c \in clients : sockets[c].readyState = "OPEN"}}

\* the broadcasts of one handler
Broadcasts(events) == UNION {broadcastToSession(e.sessionId, e) : e \in Range(events)}

\* a step that calls no ws.send and runs no socket listener
NothingSent ==
    /\ wire' = {}
    /\ UNCHANGED <<sockets, sessionConnections, client>>

Done(st, r) ==
    /\ storage' = st
    /\ resp' = r
    /\ wire' = Broadcasts(r.events)
    /\ UNCHANGED <<inflight, sockets, sessionConnections, client>>

\* POST /api/sessions
PostSession(code) ==
    LET gm == users + 1      \* createUniqueUser
    IN  /\ users' = gm
        /\ UNCHANGED now
        /\ IF createGameSessionThrows(storage, code)
           THEN Done(createGameSession(storage, code, gm),
                     Response("createSession", 0, gm, 500, FALSE, 0, <<>>))
           ELSE Done(createGameSession(storage, code, gm),
                     Response("createSession", storage.sessionCounter, gm, 200, FALSE, 0, <<>>))

\* the storage calls of POST /api/sessions/join once the player may join:
\* joinSession, then the turn order of the newcomer
JoinStore(st, sessionId, userId, joinedAt) ==
    LET players == getSessionPlayers(st, sessionId)
        s1 == joinSession(st, sessionId, userId, Num(8), Num(8), Len(players), joinedAt)
    IN  IF Len(players) = 0
        THEN setActiveTurn(recalculateTurnOrder(s1, sessionId), sessionId, userId)
        ELSE addPlayerToTurnOrder(s1, sessionId, userId)

\* the player object of the response: with MemStorage the stored object
\* itself, which the later calls have changed; with the database the row as
\* it was inserted
JoinedPlayerTurnOrder(st, sessionId, userId, joinedAt) ==
    IF IsMem(st)
    THEN getPlayerInSession(JoinStore(st, sessionId, userId, joinedAt), sessionId, userId).turnOrder
    ELSE Len(getSessionPlayers(st, sessionId))

\* POST /api/sessions/join.  tick: whether the clock has moved on since the
\* previous joinedAt was taken.
PostJoin(code, tick) ==
    LET user == users + 1    \* createUniqueUser
        at   == now + tick
    IN  /\ users' = user
        /\ now' = at
        /\ IF ~HasSessionWithCode(storage, code)
           THEN Done(storage, Response("join", 0, user, 404, FALSE, 0, <<>>))
           ELSE LET session == getGameSessionByCode(storage, code)
                IN  IF HasPlayerInSession(storage, session.id, user)
                    THEN Done(storage, Response("join", session.id, user, 200, FALSE, 0, <<>>))
                    ELSE IF Len(getSessionPlayers(storage, session.id)) >= 5
                    THEN Done(storage, Response("join", session.id, user, 400, FALSE, 0, <<>>))
                    ELSE Done(JoinStore(storage, session.id, user, at),
                              Response("join", session.id, user, 200, TRUE,
                                       JoinedPlayerTurnOrder(storage, session.id, user, at),
                                       <<Event("player_joined", session.id, user, 0)>>))

\* PATCH /api/sessions/:id/players/:targetUserId/nerve
\* z.number().min(0).max(8): a nerve outside it makes parse throw (500); so
\* does an UPDATE the database refuses
PatchNerve(sessionId, userId, targetUserId, nerve) ==
    /\ UNCHANGED <<users, now>>
    /\ IF ~HasSession(storage, sessionId)
       THEN Done(storage, Response("nerve", sessionId, userId, 404, FALSE, 0, <<>>))
       ELSE IF getGameSession(storage, sessionId).gmId # userId
       THEN Done(storage, Response("nerve", sessionId, userId, 403, FALSE, 0, <<>>))
       ELSE IF nerve < Num(0) \/ nerve > Num(8) \/ updatePlayerNerveThrows(storage, nerve)
       THEN Done(storage, Response("nerve", sessionId, userId, 500, FALSE, 0, <<>>))
       ELSE Done(updatePlayerNerve(storage, sessionId, targetUserId, nerve),
                 Response("nerve", sessionId, userId, 200, FALSE, targetUserId,
                          <<Event("nerve_updated", sessionId, targetUserId, nerve)>>))

\* POST /api/sessions/:id/turn/next
PostTurnNext(sessionId, userId) ==
    /\ UNCHANGED <<users, now>>
    /\ IF ~HasSession(storage, sessionId)
       THEN Done(storage, Response("turnNext", sessionId, userId, 404, FALSE, 0, <<>>))
       ELSE IF getGameSession(storage, sessionId).gmId # userId
       THEN Done(storage, Response("turnNext", sessionId, userId, 403, FALSE, 0, <<>>))
       ELSE IF advanceToNextPlayerThrows(storage, sessionId)
       THEN Done(storage, Response("turnNext", sessionId, userId, 500, FALSE, 0, <<>>))
       ELSE LET r  == advanceResult(storage, sessionId)
                s1 == advanceToNextPlayer(storage, sessionId)
            IN  Done(s1, Response("turnNext", sessionId, userId, 200,
                                  r.turnIncremented, r.nextPlayerId,
                                  <<Event("turn_advanced", sessionId, r.nextPlayerId,
                                          OrInt(getGameSession(s1, sessionId).currentTurn, 1))>>))

\* parseInt on the strings the model submits; NaN is NullInt (falsy, as NaN is)
ParseInt(s) ==
    CASE s = "0"  -> 0
      [] s = "1"  -> 1
      [] s = "2"  -> 2
      [] s = "12" -> 12
      [] s = "-5" -> -5
      [] OTHER    -> NullInt

\* threat ? parseInt(threat) || 1 : undefined
StatNum(s) == IF Truthy(s) THEN OrInt(ParseInt(s), 1) ELSE NullInt

\* Math.max(1, Math.min(10, (current || 1) + delta))
ClampStat(current, delta) == Max(1, Min(10, OrInt(current, 1) + delta))

IsNewEncounter(session, sentence, noun, verb, adjective) ==
    \/ session.encounterSentence # sentence
    \/ (session.encounterSentence = NullStr /\ Truthy(sentence))
    \/ session.encounterNoun # noun
    \/ session.encounterVerb # verb
    \/ session.encounterAdjective # adjective

\* if (text) createWord({word: text, category, isApproved: true, potency: null})
AddEncounterWord(st, sessionId, text, category) ==
    IF Truthy(text)
    THEN createWord(st, [word |-> text, sessionId |-> sessionId,
                         meaning |-> "GM generated encounter " \o category,
                         category |-> category, isApproved |-> TRUE, potency |-> NullInt])
    ELSE st

\* for (const word of pendingWords) deleteWord(word.id)
RECURSIVE DeleteWords(_, _)
DeleteWords(st, ws) ==
    IF ws = <<>> THEN st ELSE DeleteWords(deleteWord(st, Head(ws).id), Tail(ws))

\* players.find(p => p.turnOrder === 0), then setActiveTurn
ActivateFirstPlayer(st, sessionId) ==
    LET players == getSessionPlayers(st, sessionId)
        first   == FindIndex(players, LAMBDA p : p.turnOrder = 0)
    IN  IF first # 0 THEN setActiveTurn(st, sessionId, players[first].userId) ELSE st

\* firstPlayer?.userId; 0 when no player has turnOrder 0
FirstPlayerId(st, sessionId) ==
    LET players == getSessionPlayers(st, sessionId)
        first   == FindIndex(players, LAMBDA p : p.turnOrder = 0)
    IN  IF first # 0 THEN players[first].userId ELSE 0

\* the isNewEncounter branch of PATCH /api/sessions/:id/encounter
NewEncounterStore(st, sessionId, sentence, threat, difficulty, length, noun, verb, adjective) ==
    LET s1 == resetTurnsForNewEncounter(st, sessionId)
        s2 == AddEncounterWord(s1, sessionId, noun, "noun")
        s3 == AddEncounterWord(s2, sessionId, verb, "verb")
        s4 == AddEncounterWord(s3, sessionId, adjective, "adjective")
        s5 == updateEncounter(s4, sessionId,
                 [sentence   |-> OrStr(sentence, ""),
                  threat     |-> OrInt(StatNum(threat), 1),
                  difficulty |-> OrInt(StatNum(difficulty), 1),
                  length     |-> OrInt(StatNum(length), 1),
                  noun |-> noun, verb |-> verb, adjective |-> adjective,
                  isPrepTurn |-> "true", currentPrepWordIndex |-> 0,
                  currentPrepWordTurnCount |-> NullInt])
        s6 == ActivateFirstPlayer(recalculateTurnOrder(s5, sessionId), sessionId)
    IN  DeleteWords(s6, getPendingWords(s6, sessionId))

\* the else branch: the submitted numbers are added to the current stats
SameEncounterStore(st, sessionId, sentence, threat, difficulty, length, noun, verb, adjective) ==
    LET session == getGameSession(st, sessionId)
    IN  updateEncounter(st, sessionId,
           [sentence   |-> OrStr(sentence, ""),
            threat     |-> ClampStat(session.encounterThreat, OrInt(StatNum(threat), 0)),
            difficulty |-> ClampStat(session.encounterDifficulty, OrInt(StatNum(difficulty), 0)),
            length     |-> ClampStat(session.encounterLength, OrInt(StatNum(length), 0)),
            noun |-> noun, verb |-> verb, adjective |-> adjective,
            isPrepTurn |-> "undefined", currentPrepWordIndex |-> NullInt,
            currentPrepWordTurnCount |-> NullInt])

\* PATCH /api/sessions/:id/encounter
PatchEncounter(sessionId, userId, sentence, threat, difficulty, length, noun, verb, adjective) ==
    /\ UNCHANGED <<users, now>>
    /\ IF ~HasSession(storage, sessionId)
       THEN Done(storage, Response("encounter", sessionId, userId, 404, FALSE, 0, <<>>))
       ELSE IF getGameSession(storage, sessionId).gmId # userId
       THEN Done(storage, Response("encounter", sessionId, userId, 403, FALSE, 0, <<>>))
       ELSE LET isNew == IsNewEncounter(getGameSession(storage, sessionId),
                                        sentence, noun, verb, adjective)
                s1 == IF isNew
                      THEN NewEncounterStore(storage, sessionId, sentence, threat,
                                             difficulty, length, noun, verb, adjective)
                      ELSE SameEncounterStore(storage, sessionId, sentence, threat,
                                              difficulty, length, noun, verb, adjective)
            IN  Done(s1, Response("encounter", sessionId, userId, 200, isNew, 0,
                                  <<Event("encounter_updated", sessionId, userId,
                                          getGameSession(s1, sessionId).currentTurn)>>))

\* prep counters that begin again with the noun after the adjective
NextPrepStateOver(session, numPlayers) ==
    LET count1 == OrInt(session.currentPrepWordTurnCount, 0) + 1
        index0 == OrInt(session.currentPrepWordIndex, 0)
    IN  [currentPrepWordTurnCount |-> IF count1 >= numPlayers THEN 0 ELSE count1,
         currentPrepWordIndex     |-> IF count1 >= numPlayers THEN (index0 + 1) % 3 ELSE index0,
         isPrepTurn               |-> TRUE]

\* the prep counters POST /api/sessions/:id/prep/next-word computes
NextPrepState(session, numPlayers) ==
    LET count1 == OrInt(session.currentPrepWordTurnCount, 0) + 1
        index0 == OrInt(session.currentPrepWordIndex, 0)
        round  == count1 >= numPlayers
        count2 == IF round THEN 0 ELSE count1
        index1 == IF round THEN index0 + 1 ELSE index0
    IN  [currentPrepWordTurnCount |-> count2,
         currentPrepWordIndex     |-> IF index1 >= 3 THEN 0 ELSE index1,
         isPrepTurn               |-> ~(index1 >= 3)]

\* the storage calls of POST /api/sessions/:id/prep/next-word for a session
\* that has players: updateEncounter with the new counters, then the next
\* player (prep goes on) or the first player (prep is over)
PrepNextWordStore(st, sessionId) ==
    LET session == getGameSession(st, sessionId)
        n  == NextPrepState(session, Len(getSessionPlayers(st, sessionId)))
        s1 == updateEncounter(st, sessionId,
                 [EncounterData(OrStr(session.encounterSentence, "")) EXCEPT
                    !.currentPrepWordIndex = n.currentPrepWordIndex,
                    !.isPrepTurn = IF n.isPrepTurn THEN "true" ELSE "false",
                    !.currentPrepWordTurnCount = n.currentPrepWordTurnCount])
    IN  IF n.isPrepTurn
        THEN IF advanceToNextPlayerThrows(s1, sessionId) THEN s1
             ELSE advanceToNextPlayer(s1, sessionId)
        ELSE ActivateFirstPlayer(s1, sessionId)

\* POST /api/sessions/:id/prep/next-word
PostPrepNextWord(sessionId, userId) ==
    /\ UNCHANGED <<users, now>>
    /\ IF ~HasSession(storage, sessionId)
       THEN Done(storage, Response("prepNextWord", sessionId, userId, 404, FALSE, 0, <<>>))
       ELSE IF Len(getSessionPlayers(storage, sessionId)) = 0
       THEN Done(storage, Response("prepNextWord", sessionId, userId, 400, FALSE, 0, <<>>))
       ELSE LET session == getGameSession(storage, sessionId)
                n  == NextPrepState(session, Len(getSessionPlayers(storage, sessionId)))
                s1 == PrepNextWordStore(storage, sessionId)
            IN  Done(s1, Response("prepNextWord", sessionId, userId, 200, n.isPrepTurn,
                                  IF n.isPrepTurn
                                  THEN advanceResult(storage, sessionId).nextPlayerId
                                  ELSE FirstPlayerId(s1, sessionId),
                                  <<Event("prep_turn_advanced", sessionId, userId,
                                          n.currentPrepWordIndex)>>))

\* POST /api/sessions/:sessionId/words
PostWords(sessionId, word, meaning, userId, category) ==
    /\ UNCHANGED <<users, now>>
    /\ IF ~Truthy(word) \/ userId = NullInt
       THEN Done(storage, Response("words", sessionId, userId, 400, FALSE, 0, <<>>))
       ELSE IF HasWordWithText(storage, sessionId, word)
       THEN LET existingWord == findWordByText(storage, sessionId, word)
            IN  Done(addWordOwner(storage, existingWord.id, userId),
                     Response("words", sessionId, userId, 200, TRUE, existingWord.id,
                              <<Event("word_ownership_updated", sessionId, userId,
                                      existingWord.id)>>))
       ELSE IF ~Truthy(meaning)
       THEN Done(storage, Response("words", sessionId, userId, 400, FALSE, 0, <<>>))
       ELSE LET w  == [word |-> word, sessionId |-> sessionId, meaning |-> meaning,
                       category |-> OrStr(category, "noun"), potency |-> NullInt,
                       isApproved |-> FALSE]
                id == createdWord(storage, w).id
            IN  Done(addWordOwner(createWord(storage, w), id, userId),
                     Response("words", sessionId, userId, 200, FALSE, id,
                              <<Event("word_created", sessionId, userId, id)>>))

\* the nerve of an owner after an approval with the given potency
ApprovedNerve(nerve, potency) ==
    IF potency > 0 THEN Max(Num(1), OrInt(nerve, 0) - Num(potency))
    ELSE IF potency < 0 THEN Min(Num(8), OrInt(nerve, 0) - Num(potency))
    ELSE OrInt(nerve, 0)

\* for (const ownerId of wordOwners): read the player, write the new nerve,
\* broadcast nerve_updated.  The result is the storage and the broadcasts.
RECURSIVE AdjustOwners(_, _, _, _, _)
AdjustOwners(st, sessionId, owners, potency, events) ==
    IF owners = <<>> THEN [st |-> st, events |-> events]
    ELSE LET ownerId == Head(owners)
         IN  IF HasPlayerInSession(st, sessionId, ownerId)
             THEN LET newNerve == ApprovedNerve(getPlayerInSession(st, sessionId, ownerId).nerve, potency)
                  IN  AdjustOwners(updatePlayerNerve(st, sessionId, ownerId, newNerve),
                                   sessionId, Tail(owners), potency,
                                   Append(events, Event("nerve_updated", sessionId, ownerId, newNerve)))
             ELSE AdjustOwners(st, sessionId, Tail(owners), potency, events)

\* POST /api/sessions/:id/words/:wordId/approve
\* A potency that is undefined (NullInt) or outside -2..2 is refused.
PostApprove(sessionId, wordId, userId, potency) ==
    /\ UNCHANGED <<users, now>>
    /\ IF userId = NullInt \/ potency = NullInt \/ potency < -2 \/ potency > 2
       THEN Done(storage, Response("approve", sessionId, userId, 400, FALSE, wordId, <<>>))
       ELSE IF ~HasSession(storage, sessionId)
       THEN Done(storage, Response("approve", sessionId, userId, 404, FALSE, wordId, <<>>))
       ELSE IF getGameSession(storage, sessionId).gmId # userId
       THEN Done(storage, Response("approve", sessionId, userId, 403, FALSE, wordId, <<>>))
       ELSE IF approveWordThrows(storage, wordId)
       THEN Done(storage, Response("approve", sessionId, userId, 500, FALSE, wordId, <<>>))
       ELSE LET s1 == approveWord(storage, wordId, potency)
                a  == AdjustOwners(s1, sessionId, getWordOwners(s1, wordId), potency, <<>>)
            IN  Done(a.st, Response("approve", sessionId, userId, 200, TRUE, wordId,
                                    Append(a.events,
                                           Event("word_approved", sessionId, userId, wordId))))

\* POST /api/sessions/:id/prep/define-word
\* The meaning goes to the session's prepWordMeanings, not to the dictionary.
PostDefineWord(sessionId, word, meaning, userId) ==
    /\ UNCHANGED <<users, now>>
    /\ IF ~Truthy(word) \/ ~Truthy(meaning) \/ userId = NullInt
       THEN Done(storage, Response("defineWord", sessionId, userId, 400, FALSE, 0, <<>>))
       ELSE Done(setPrepWordMeaning(storage, sessionId, word, meaning),
                 Response("defineWord", sessionId, userId, 200, FALSE, 0,
                          <<Event("prep_word_meaning_defined", sessionId, userId, 0)>>))

\* POST /api/sessions/:id/prep/set-potency
\* The potency is not range-checked; a word not yet in the dictionary is
\* created, an existing one has its meaning and potency overwritten.
PostSetPotency(sessionId, word, potency, meaning, userId) ==
    /\ UNCHANGED <<users, now>>
    /\ IF ~Truthy(word) \/ potency = NullInt \/ userId = NullInt \/ ~Truthy(meaning)
       THEN Done(storage, Response("setPotency", sessionId, userId, 400, FALSE, 0, <<>>))
       ELSE IF ~HasSession(storage, sessionId)
       THEN Done(storage, Response("setPotency", sessionId, userId, 404, FALSE, 0, <<>>))
       ELSE IF getGameSession(storage, sessionId).gmId # userId
       THEN Done(storage, Response("setPotency", sessionId, userId, 403, FALSE, 0, <<>>))
       ELSE LET s1 == IF ~HasWordWithText(storage, sessionId, word)
                      THEN createWord(storage,
                              [word |-> word, sessionId |-> sessionId, meaning |-> meaning,
                               potency |-> potency, category |-> "noun", isApproved |-> TRUE])
                      ELSE updateWordPotency(
                              updateWordMeaning(storage, word, meaning, sessionId),
                              word, potency, sessionId)
                wordObj == findWordByText(s1, sessionId, word)
            IN  Done(s1, Response("setPotency", sessionId, userId, 200,
                                  ~HasWordWithText(storage, sessionId, word), wordObj.id,
                                  <<Event("word_defined", sessionId, userId,
                                          OrInt(wordObj.potency, 0))>>))

\* switch (session.currentPrepWordIndex): the encounter word being defined
CurrentPrepWord(session) ==
    CASE session.currentPrepWordIndex = 0 -> session.encounterNoun
      [] session.currentPrepWordIndex = 1 -> session.encounterVerb
      [] session.currentPrepWordIndex = 2 -> session.encounterAdjective
      [] OTHER -> NullStr

CurrentPrepCategory(session) ==
    CASE session.currentPrepWordIndex = 1 -> "verb"
      [] session.currentPrepWordIndex = 2 -> "adjective"
      [] OTHER -> "noun"

\* POST /api/sessions/:id/prep/modify-stats
\* The potency of the current prep word is added to each of the three stats.
PostModifyStats(sessionId, userId) ==
    /\ UNCHANGED <<users, now>>
    /\ IF userId = NullInt
       THEN Done(storage, Response("modifyStats", sessionId, userId, 400, FALSE, 0, <<>>))
       ELSE IF ~HasSession(storage, sessionId)
       THEN Done(storage, Response("modifyStats", sessionId, userId, 404, FALSE, 0, <<>>))
       ELSE LET session == getGameSession(storage, sessionId)
                currentWord == CurrentPrepWord(session)
            IN  IF ~Truthy(currentWord) \/ ~HasWordWithText(storage, sessionId, currentWord)
                THEN Done(storage, Response("modifyStats", sessionId, userId, 400, FALSE, 0, <<>>))
                ELSE LET wordInDictionary == findWordByText(storage, sessionId, currentWord)
                         potency == wordInDictionary.potency
                     IN  IF potency = NullInt
                         THEN Done(storage, Response("modifyStats", sessionId, userId, 400, FALSE,
                                                     wordInDictionary.id, <<>>))
                         ELSE Done(updateEncounter(storage, sessionId,
                                      [EncounterData(OrStr(session.encounterSentence, "")) EXCEPT
                                         !.threat = ClampStat(session.encounterThreat, potency),
                                         !.difficulty = ClampStat(session.encounterDifficulty, potency),
                                         !.length = ClampStat(session.encounterLength, potency)]),
                                   Response("modifyStats", sessionId, userId, 200, FALSE,
                                            wordInDictionary.id,
                                            <<Event("stats_modified", sessionId, userId, potency)>>))

\* POST /api/sessions/:id/prep/adjust-encounter-stat
\* meaning and potency are used only when the word is not in the dictionary
\* (typeof potency !== 'number': NullInt stands for a missing potency).
PostAdjustEncounterStat(sessionId, stat, userId, meaning, potency) ==
    /\ UNCHANGED <<users, now>>
    /\ IF ~Truthy(stat) \/ userId = NullInt
       THEN Done(storage, Response("adjustStat", sessionId, userId, 400, FALSE, 0, <<>>))
       ELSE IF ~HasSession(storage, sessionId)
       THEN Done(storage, Response("adjustStat", sessionId, userId, 404, FALSE, 0, <<>>))
       ELSE LET session == getGameSession(storage, sessionId)
                currentWord == CurrentPrepWord(session)
                found == HasWordWithText(storage, sessionId, currentWord)
                w  == [word |-> currentWord, sessionId |-> sessionId, meaning |-> meaning,
                       category |-> CurrentPrepCategory(session), potency |-> potency,
                       isApproved |-> TRUE]
                s1 == IF found THEN storage ELSE createWord(storage, w)
                \* the object the handler holds: the row found, or the one created
                wordInDictionary == IF found THEN findWordByText(storage, sessionId, currentWord)
                                    ELSE createdWord(storage, w)
                s2 == addWordOwner(s1, wordInDictionary.id, session.gmId)
                adjustment == OrInt(wordInDictionary.potency, 0)
                s3 == updateEncounter(s2, sessionId,
                        [EncounterData(OrStr(session.encounterSentence, "")) EXCEPT
                           !.threat = IF stat = "threat"
                                      THEN ClampStat(session.encounterThreat, adjustment)
                                      ELSE OrInt(session.encounterThreat, 1),
                           !.difficulty = IF stat = "difficulty"
                                          THEN ClampStat(session.encounterDifficulty, adjustment)
                                          ELSE OrInt(session.encounterDifficulty, 1),
                           !.length = IF stat = "length"
                                      THEN ClampStat(session.encounterLength, adjustment)
                                      ELSE OrInt(session.encounterLength, 1)])
            IN  IF ~Truthy(currentWord)
                THEN Done(storage, Response("adjustStat", sessionId, userId, 400, FALSE, 0, <<>>))
                ELSE IF ~found /\ (~Truthy(meaning) \/ potency = NullInt)
                THEN Done(storage, Response("adjustStat", sessionId, userId, 400, FALSE, 0, <<>>))
                ELSE IF stat \notin {"threat", "difficulty", "length"}
                \* the word and its owner are already written when the stat is refused
                THEN Done(s2, Response("adjustStat", sessionId, userId, 400, FALSE,
                                       wordInDictionary.id, <<>>))
                ELSE Done(s3, Response("adjustStat", sessionId, userId, 200, ~found,
                                       wordInDictionary.id,
                                       <<Event("stat_adjusted", sessionId, userId, adjustment)>>))

-----------------------------------------------------------------------------
(* Requests the model submits *)

Codes == {"A", "B"}
UserIds == 1..MaxUsers
SessionIds == {storage.sessions[i].id : i \in 1..Len(storage.sessions)}
WordIds == {storage.words[i].id : i \in 1..Len(storage.words)}

\* the JSON body of PATCH /api/sessions/:id/encounter
Body(sentence, threat, noun, verb, adjective) ==
    [sentence |-> sentence, threat |-> threat, difficulty |-> Undefined,
     length |-> Undefined, noun |-> noun, verb |-> verb, adjective |-> adjective]

\* who sends a request for session s: its game master and one other user
Callers(s) ==
    LET gm == getGameSession(storage, s).gmId
    IN  {gm, gm + 1}

\* how many words the new-encounter branch creates for a body
WordsOf(b) == Cardinality({f \in {"noun", "verb", "adjective"} : Truthy(b[f])})

\* the vowels of a session that was given none
DefaultVowels == <<"Ba", "Li", "Ske", "Po", "Nu", "Hee">>

\* no WebSocket has connected and no tab has generated a word
NoSockets ==
    /\ sockets = [c \in 1..MaxSockets |-> [readyState |-> "CONNECTING", sent |-> {}]]
    /\ sessionConnections = {}
    /\ wire = {}
    /\ client = [vowels |-> DefaultVowels, dice |-> <<>>, rolls |-> <<>>, word |-> <<>>]

Init ==
    /\ \E kind \in StorageKinds : storage = NewStorage(kind)
    /\ now = 0
    /\ users = 0
    /\ resp = NoResponse
    /\ inflight = <<>>
    /\ NoSockets

CreateSession(maxUsers, maxSessions, codes) ==
    /\ users < maxUsers
    /\ Len(storage.sessions) < maxSessions
    /\ \E code \in codes : PostSession(code)

\* the database stamps joined_at in microseconds: no two joins share it.
\* MemStorage's new Date() has millisecond resolution: two may.
Join(maxUsers, codes) ==
    /\ users < maxUsers
    /\ \E code \in codes, tick \in {0, 1} :
          /\ IsMem(storage) \/ tick = 1
          /\ PostJoin(code, tick)

SetNerve(nerves) ==
    \E s \in SessionIds : \E u \in Callers(s), target \in UserIds, nerve \in nerves :
       PatchNerve(s, u, target, nerve)

TurnNext(maxTurn) ==
    \E s \in SessionIds : \E u \in Callers(s) :
       /\ getGameSession(storage, s).currentTurn < maxTurn
       /\ PostTurnNext(s, u)

SubmitEncounter(bodies, maxWordId) ==
    \E s \in SessionIds : \E u \in Callers(s), b \in bodies :
       /\ storage.wordCounter + WordsOf(b) <= maxWordId + 1
       /\ PatchEncounter(s, u, b.sentence, b.threat, b.difficulty, b.length, b.noun, b.verb, b.adjective)

PrepNextWord(maxTurn) ==
    \E s \in SessionIds : \E u \in Callers(s) :
       /\ getGameSession(storage, s).currentTurn < maxTurn
       /\ PostPrepNextWord(s, u)

SubmitWord(maxWordId, maxOwners, texts, meanings) ==
    \E s \in SessionIds, text \in texts, meaning \in meanings : \E u \in Callers(s) :
       /\ storage.wordCounter <= maxWordId
       /\ Len(storage.wordOwners) < maxOwners
       /\ PostWords(s, text, meaning, u, Undefined)

Approve(potencies) ==
    \E s \in SessionIds, w \in WordIds, potency \in potencies : \E u \in Callers(s) :
       PostApprove(s, w, u, potency)

SetPotency(maxWordId, texts, potencies) ==
    \E s \in SessionIds, text \in texts, potency \in potencies : \E u \in Callers(s) :
       /\ storage.wordCounter <= maxWordId
       /\ PostSetPotency(s, text, potency, "m2", u)

DefineWord(texts, meanings) ==
    \E s \in SessionIds, text \in texts, meaning \in meanings : \E u \in Callers(s) :
       PostDefineWord(s, text, meaning, u)

ModifyStats ==
    \E s \in SessionIds : \E u \in Callers(s) : PostModifyStats(s, u)

AdjustEncounterStat(maxWordId, maxOwners, stats, potencies) ==
    \E s \in SessionIds, stat \in stats, potency \in potencies : \E u \in Callers(s) :
       /\ storage.wordCounter <= maxWordId
       /\ Len(storage.wordOwners) < maxOwners
       /\ PostAdjustEncounterStat(s, stat, u, "m3", potency)

-----------------------------------------------------------------------------
(* Spec: the turn order.  One session, one request at a time. *)

TurnNerves == {Num(1), Num(8)}

TurnBodies == { Body("s1", Undefined, Undefined, Undefined, Undefined) }

Next ==
    \/ CreateSession(MaxUsers, MaxSessions, {"A"})
    \/ Join(MaxUsers, {"A"})
    \/ SetNerve(TurnNerves)
    \/ TurnNext(MaxTurn)
    \/ SubmitEncounter(TurnBodies, MaxWordId)

Spec == Init /\ [][Next]_vars

-----------------------------------------------------------------------------
(* SpecPrep: the prep phase of an encounter.  One request at a time. *)

PrepBodies ==
    { Body("s1", Undefined, "a", "b", "c"),
      Body("s2", Undefined, "a", "b", "c") }

NextPrep ==
    \/ CreateSession(PrepUsers, 1, {"A"})
    \/ Join(PrepUsers, {"A"})
    \/ SubmitEncounter(PrepBodies, PrepWordId)
    \/ PrepNextWord(PrepTurn)
    \/ TurnNext(PrepTurn)

SpecPrep == Init /\ [][NextPrep]_vars

-----------------------------------------------------------------------------
(* SpecWords: the dictionary of two sessions.  One request at a time. *)

WordBodies == { Body("s1", Undefined, "a", "b", "c") }

NextWords ==
    \/ CreateSession(WordUsers, WordSessions, Codes)
    \/ Join(WordUsers, {"A"})
    \/ SubmitWord(WordIdMax, WordOwnerRows, {"a"}, {"m1"})
    \/ Approve({2})
    \/ SubmitEncounter(WordBodies, WordIdMax)

SpecWords == Init /\ [][NextWords]_vars

-----------------------------------------------------------------------------
(* SpecNerve: the nerve of the players of one session, set by the game
   master and moved by the approval of a word.  One request at a time. *)

\* 0, 7.5 and 8
NerveValues == {Num(0), Num(7) + 1, Num(8)}

NervePotencies == {-1, 2}

NextNerve ==
    \/ CreateSession(NerveUsers, 1, {"A"})
    \/ Join(NerveUsers, {"A"})
    \/ SetNerve(NerveValues)
    \/ SubmitWord(NerveWordId, NerveOwnerRows, {"a"}, {"m1"})
    \/ Approve(NervePotencies)

SpecNerve == Init /\ [][NextNerve]_vars

-----------------------------------------------------------------------------
(* SpecDefine: the words of an encounter are given a meaning and a potency,
   and the potency moves the stats of the encounter.  One session, one
   request at a time. *)

DefineBodies == { Body("s1", "12", "a", "b", "c") }

DefinePotencies == {0, 1, 5}

NextDefine ==
    \/ CreateSession(DefineUsers, 1, {"A"})
    \/ SubmitEncounter(DefineBodies, DefineWordId)
    \/ SubmitWord(DefineWordId, DefineOwnerRows, {"a"}, {"m1"})
    \/ DefineWord({"a"}, {"m1"})
    \/ SetPotency(DefineWordId, {"a"}, DefinePotencies)
    \/ ModifyStats
    \/ AdjustEncounterStat(DefineWordId, DefineOwnerRows, {"threat"}, {1})

SpecDefine == Init /\ [][NextDefine]_vars

-----------------------------------------------------------------------------
(* SpecSockets: the WebSocket server.  A socket is registered for a session
   by the join_session message it sends, and unregistered by its close
   event; the handlers broadcast to the sockets registered at that time. *)

\* wss.on('connection'): the handshake of socket c is over
SocketConnect(c) ==
    /\ sockets[c].readyState = "CONNECTING"
    /\ sockets' = [sockets EXCEPT ![c].readyState = "OPEN"]
    /\ wire' = {}
    /\ UNCHANGED <<storage, now, users, resp, inflight, sessionConnections, client>>

\* ws.on('message'): socket c sent {type, sessionId}; the session need not exist
SocketMessage(c, type, sessionId) ==
    /\ sockets[c].readyState = "OPEN"
    /\ sockets' = [sockets EXCEPT ![c].sent =
                      IF type = "join_session" THEN @ \cup {sessionId} ELSE @]
    /\ sessionConnections' =
           IF type = "join_session" /\ sessionId # 0
           THEN sessionConnections \cup {<<sessionId, c>>}
           ELSE sessionConnections
    /\ wire' = {}
    /\ UNCHANGED <<storage, now, users, resp, inflight, client>>

\* the closing handshake of socket c has begun; its close event is yet to come
SocketClosing(c) ==
    /\ sockets[c].readyState = "OPEN"
    /\ sockets' = [sockets EXCEPT ![c].readyState = "CLOSING"]
    /\ wire' = {}
    /\ UNCHANGED <<storage, now, users, resp, inflight, sessionConnections, client>>

\* ws.on('close'): every listener a join_session registered removes c from its session
SocketClose(c) ==
    /\ sockets[c].readyState \in {"OPEN", "CLOSING"}
    /\ sockets' = [sockets EXCEPT ![c].readyState = "CLOSED"]
    /\ sessionConnections' = {p \in sessionConnections : p[2] # c}
    /\ wire' = {}
    /\ UNCHANGED <<storage, now, users, resp, inflight, client>>

NextSockets ==
    \/ CreateSession(SocketUsers, SocketSessions, {"A", "B"})
    \/ Join(SocketUsers, {"A", "B"})
    \/ \E c \in 1..MaxSockets : SocketConnect(c)
    \/ \E c \in 1..MaxSockets : \E type \in {"join_session", "ping"} :
          \E sessionId \in 0..SocketSessions : SocketMessage(c, type, sessionId)
    \/ \E c \in 1..MaxSockets : SocketClosing(c)
    \/ \E c \in 1..MaxSockets : SocketClose(c)

SpecSockets == Init /\ [][NextSockets]_vars

-----------------------------------------------------------------------------
(* SpecVowels: the word generator of the browser.  Each Math.random() die
   is an input; dice is the sequence of dice a call may draw, in order. *)

\* Math.ceil(a / 2)
CeilHalf(a) == (a + 1) \div 2

\* the most Math.random() calls of one generated word: the first die and numDice more
DiceDrawn == 1 + CeilHalf(6)

\* array[i] of JavaScript: indices from 0, undefined outside the array
Index(array, i) == IF i + 1 \in DOMAIN array THEN array[i + 1] ELSE Undefined

\* parts.join(''), kept as the sequence of its non-empty parts
JoinParts(parts) == SelectSeq(parts, LAMBDA s : s # Undefined /\ s # "")

\* generateWordFromVowels taking the dice as indices from 0, one die too few
generateWordFromZero(vowels, dice) ==
    LET numDice == dice[1] \div 2
    IN  [word |-> JoinParts(Array([i \in 1..numDice |-> Index(vowels, dice[1 + i])])),
         rolls |-> Array([i \in 1..numDice |-> dice[1 + i]])]

generateWordFromVowels(vowels, dice) ==
    LET initialRoll == dice[1]
        numDice == CeilHalf(initialRoll)
        rolls == Array([i \in 1..numDice |-> dice[1 + i]])
    IN  [word |-> JoinParts(Array([i \in 1..numDice |-> Index(vowels, rolls[i] - 1)])),
         rolls |-> rolls]

\* handleGenerateWord: the button that fills in a generated word
GenerateWord(dice) ==
    LET result == generateWordFromVowels(client.vowels, dice)
    IN  /\ client' = [client EXCEPT !.dice = dice, !.rolls = result.rolls, !.word = result.word]
        /\ wire' = {}
        /\ UNCHANGED <<storage, now, users, resp, inflight, sockets, sessionConnections>>

VowelLists == {DefaultVowels, <<"a", "e", "i", "o", "u", "y">>}

\* the tab shows a session with one of the vowel lists
InitVowels ==
    /\ storage = NewStorage("MemStorage")
    /\ now = 0
    /\ users = 0
    /\ resp = NoResponse
    /\ inflight = <<>>
    /\ sockets = [c \in 1..MaxSockets |-> [readyState |-> "CONNECTING", sent |-> {}]]
    /\ sessionConnections = {}
    /\ wire = {}
    /\ \E vowels \in VowelLists :
          client = [vowels |-> vowels, dice |-> <<>>, rolls |-> <<>>, word |-> <<>>]

NextVowels == \E dice \in [1..DiceDrawn -> 1..6] : GenerateWord(dice)

SpecVowels == InitVowels /\ [][NextVowels]_vars

-----------------------------------------------------------------------------
(* SpecStorage: the storage interface on its own.  A caller makes storage
   calls one after the other.  In SpecBackends inflight keeps the calls made
   so far, in order, so that the same calls can be made on an instance of
   the other class. *)

\* one call of an IStorage method with its arguments
StorageCall(method, sessionId, userId, arg) ==
    [method |-> method, sessionId |-> sessionId, userId |-> userId, arg |-> arg]

\* the call c on the storage st, made at time at: the storage after it,
\* whether it threw, and what it returned
Apply(st, c, at) ==
    LET Returns(s1, value) == [st |-> s1, throws |-> FALSE, value |-> value, flag |-> FALSE]
        Throws == [st |-> st, throws |-> TRUE, value |-> 0, flag |-> FALSE]
    IN  CASE c.method = "createGameSession" ->
                IF createGameSessionThrows(st, "A") THEN Throws
                ELSE Returns(createGameSession(st, "A", c.userId), st.sessionCounter)
          [] c.method = "getGameSessionByCode" ->
                Returns(st, IF HasSessionWithCode(st, "A") THEN getGameSessionByCode(st, "A").id ELSE 0)
          [] c.method = "joinSession" ->
                Returns(joinSession(st, c.sessionId, c.userId, Num(8), Num(8), c.arg, at), c.userId)
          [] c.method = "recalculateTurnOrder" -> Returns(recalculateTurnOrder(st, c.sessionId), 0)
          [] c.method = "addPlayerToTurnOrder" ->
                Returns(addPlayerToTurnOrder(st, c.sessionId, c.userId), 0)
          [] c.method = "setActiveTurn" -> Returns(setActiveTurn(st, c.sessionId, c.userId), 0)
          [] c.method = "advanceToNextPlayer" ->
                IF advanceToNextPlayerThrows(st, c.sessionId) THEN Throws
                ELSE [st |-> advanceToNextPlayer(st, c.sessionId), throws |-> FALSE,
                      value |-> advanceResult(st, c.sessionId).nextPlayerId,
                      flag |-> advanceResult(st, c.sessionId).turnIncremented]
          [] c.method = "resetTurnsForNewEncounter" ->
                IF resetTurnsForNewEncounterThrows(st, c.sessionId) THEN Throws
                ELSE Returns(resetTurnsForNewEncounter(st, c.sessionId), 0)
          [] c.method = "createWord" ->
                Returns(createWord(st, [word |-> "a", sessionId |-> c.sessionId, meaning |-> "m1",
                                        potency |-> NullInt, category |-> "noun",
                                        isApproved |-> FALSE]), st.wordCounter)
          [] c.method = "approveWord" ->
                IF approveWordThrows(st, c.arg) THEN Throws
                ELSE Returns(approveWord(st, c.arg, 2), IF HasWord(st, c.arg) THEN c.arg ELSE 0)

\* the calls the caller chooses from: those about sessions, players and turns
TurnCalls ==
    {StorageCall("createGameSession", 0, 1, 0), StorageCall("getGameSessionByCode", 0, 0, 0)}
    \cup {StorageCall("joinSession", 1, u, order) : u \in 1..StorageUsers, order \in 0..1}
    \cup {StorageCall(m, s, 0, 0) : m \in {"recalculateTurnOrder", "advanceToNextPlayer",
                                          "resetTurnsForNewEncounter"}, s \in 1..2}
    \cup {StorageCall(m, 1, u, 0) : m \in {"addPlayerToTurnOrder", "setActiveTurn"},
                                    u \in 1..StorageUsers}

\* and those about words
StorageCalls ==
    TurnCalls \cup {StorageCall("createWord", 1, 0, 0), StorageCall("approveWord", 0, 0, 1)}

\* the calls that keep the storage within the bounds
Bounded(c) ==
    CASE c.method = "createGameSession" -> storage.sessionCounter = 1
      [] c.method = "joinSession" -> ~HasPlayerInSession(storage, c.sessionId, c.userId)
      [] c.method = "addPlayerToTurnOrder" -> MaxTurnOrder(storage, c.sessionId) < StorageUsers
      [] c.method = "advanceToNextPlayer" ->
            HasSession(storage, c.sessionId) => getGameSession(storage, c.sessionId).currentTurn < StorageTurn
      [] OTHER -> TRUE

\* the caller makes the call c
Call(c, keep) ==
    LET r == Apply(storage, c, Len(storage.sessionPlayers) + 1)
    IN  /\ IF keep THEN Len(inflight) < MaxCalls ELSE Bounded(c)
        /\ storage' = r.st
        /\ inflight' = IF keep THEN Append(inflight, c) ELSE inflight
        /\ resp' = Response(c.method, c.sessionId, c.userId, IF r.throws THEN 500 ELSE 200,
                            r.flag, r.value, <<>>)
        /\ NothingSent
        /\ UNCHANGED <<users, now>>

NextStorage == \E c \in TurnCalls : Call(c, FALSE)

SpecStorage == Init /\ [][NextStorage]_vars

NextBackends == \E c \in StorageCalls : Call(c, TRUE)

SpecBackends == Init /\ [][NextBackends]_vars

-----------------------------------------------------------------------------
(* SpecConc: requests against the database, several in flight.  Every await
   of a DatabaseStorage method is a round trip to the database; while one
   request waits, the server runs the others.  A step is one statement of one
   request, together with what the handler computes from its result. *)

\* a request in flight: where it stands (pc) and the locals of its handler
Request(op, pc, sessionId, userId, text) ==
    [op |-> op, pc |-> pc, sessionId |-> sessionId, userId |-> userId, text |-> text,
     n |-> 0, list |-> <<>>, i |-> 0, next |-> 0, wrap |-> FALSE, turn |-> 0, wordId |-> 0]

Without(seq, r) == SubSeq(seq, 1, r - 1) \o SubSeq(seq, r + 1, Len(seq))

\* the request goes on to its next statement
Continue(r, st, q) ==
    /\ storage' = st
    /\ inflight' = [inflight EXCEPT ![r] = q]
    /\ NothingSent
    /\ UNCHANGED <<resp, users, now>>

\* the request answers and is over
Finish(r, st, response) ==
    /\ storage' = st
    /\ inflight' = Without(inflight, r)
    /\ resp' = response
    /\ wire' = Broadcasts(response.events)
    /\ UNCHANGED <<users, now, sockets, sessionConnections, client>>

At(r, op, pc) == inflight[r].op = op /\ inflight[r].pc = pc

InitConc ==
    /\ storage = NewStorage("DatabaseStorage")
    /\ now = 0
    /\ users = 0
    /\ resp = NoResponse
    /\ inflight = <<>>
    /\ NoSockets

\* POST /api/sessions/join arrives: createUniqueUser
JoinArrives(maxUsers, code) ==
    /\ users < maxUsers
    /\ Len(inflight) < ConcRequests
    /\ users' = users + 1
    /\ inflight' = Append(inflight, Request("join", "getSession", 0, users + 1, code))
    /\ NothingSent
    /\ UNCHANGED <<storage, resp, now>>

\* storage.getGameSessionByCode(code)
JoinGetSession(r) ==
    LET q == inflight[r]
    IN  /\ At(r, "join", "getSession")
        /\ IF ~HasSessionWithCode(storage, q.text)
           THEN Finish(r, storage, Response("join", 0, q.userId, 404, FALSE, 0, <<>>))
           ELSE Continue(r, storage,
                         [q EXCEPT !.pc = "getPlayer",
                                   !.sessionId = getGameSessionByCode(storage, q.text).id])

\* storage.getPlayerInSession(session.id, playerUser.id)
JoinGetPlayer(r) ==
    LET q == inflight[r]
    IN  /\ At(r, "join", "getPlayer")
        /\ IF HasPlayerInSession(storage, q.sessionId, q.userId)
           THEN Finish(r, storage, Response("join", q.sessionId, q.userId, 200, FALSE, 0, <<>>))
           ELSE Continue(r, storage, [q EXCEPT !.pc = "countPlayers"])

\* storage.getSessionPlayers(session.id); players.length >= 5 is refused
JoinCountPlayers(r) ==
    LET q == inflight[r]
        n == Len(getSessionPlayers(storage, q.sessionId))
    IN  /\ At(r, "join", "countPlayers")
        /\ IF n >= 5
           THEN Finish(r, storage, Response("join", q.sessionId, q.userId, 400, FALSE, 0, <<>>))
           ELSE Continue(r, storage, [q EXCEPT !.pc = "insert", !.n = n])

\* storage.joinSession({..., turnOrder: players.length})
JoinInsert(r) ==
    LET q == inflight[r]
    IN  /\ At(r, "join", "insert")
        /\ storage' = joinSession(storage, q.sessionId, q.userId, Num(8), Num(8), q.n, now + 1)
        /\ now' = now + 1
        /\ inflight' = [inflight EXCEPT ![r] =
                           [q EXCEPT !.pc = IF q.n = 0 THEN "recalcSelect" ELSE "addSelect"]]
        /\ NothingSent
        /\ UNCHANGED <<resp, users>>

\* recalculateTurnOrder: the SELECT ... ORDER BY nerve DESC, joined_at
JoinRecalcSelect(r) ==
    LET q      == inflight[r]
        sorted == PlayersByNerve(storage, q.sessionId)
    IN  /\ At(r, "join", "recalcSelect")
        /\ Continue(r, storage,
                    [q EXCEPT !.pc = IF Len(sorted) = 0 THEN "clear" ELSE "recalcUpdate",
                              !.list = Array([k \in 1..Len(sorted) |-> sorted[k].userId]),
                              !.i = 0])

\* recalculateTurnOrder: UPDATE ... SET turn_order = i for players[i]
JoinRecalcUpdate(r) ==
    LET q == inflight[r]
    IN  /\ At(r, "join", "recalcUpdate")
        /\ Continue(r, SetTurnOrder(storage, q.sessionId, q.list[q.i + 1], q.i),
                    [q EXCEPT !.pc = IF q.i + 1 >= Len(q.list) THEN "clear" ELSE "recalcUpdate",
                              !.i = q.i + 1])

\* setActiveTurn: UPDATE ... SET is_active_turn = false WHERE session_id = s
JoinClear(r) ==
    LET q == inflight[r]
    IN  /\ At(r, "join", "clear")
        /\ Continue(r, ClearActiveTurns(storage, q.sessionId), [q EXCEPT !.pc = "set"])

\* setActiveTurn: UPDATE ... SET is_active_turn = true WHERE user_id = u;
\* then the broadcast and the response
JoinSet(r) ==
    LET q == inflight[r]
    IN  /\ At(r, "join", "set")
        /\ Finish(r, MarkActiveTurn(storage, q.sessionId, q.userId),
                  Response("join", q.sessionId, q.userId, 200, TRUE, q.n,
                           <<Event("player_joined", q.sessionId, q.userId, 0)>>))

\* addPlayerToTurnOrder: SELECT turn_order of the session's players
JoinAddSelect(r) ==
    LET q == inflight[r]
    IN  /\ At(r, "join", "addSelect")
        /\ Continue(r, storage, [q EXCEPT !.pc = "addUpdate",
                                          !.i = MaxTurnOrder(storage, q.sessionId)])

\* addPlayerToTurnOrder: UPDATE ... SET turn_order = maxTurnOrder + 1; then
\* the broadcast and the response
JoinAddUpdate(r) ==
    LET q == inflight[r]
    IN  /\ At(r, "join", "addUpdate")
        /\ Finish(r, SetTurnOrder(storage, q.sessionId, q.userId, q.i + 1),
                  Response("join", q.sessionId, q.userId, 200, TRUE, q.n,
                           <<Event("player_joined", q.sessionId, q.userId, 0)>>))

\* POST /api/sessions/:id/turn/next arrives
TurnNextArrives(sessionId, userId) ==
    /\ Len(inflight) < ConcRequests
    /\ getGameSession(storage, sessionId).currentTurn < ConcTurn
    /\ inflight' = Append(inflight, Request("turnNext", "auth", sessionId, userId, ""))
    /\ NothingSent
    /\ UNCHANGED <<storage, resp, users, now>>

\* the route's storage.getGameSession(sessionId) and the game master check
TurnAuth(r) ==
    LET q == inflight[r]
    IN  /\ At(r, "turnNext", "auth")
        /\ IF ~HasSession(storage, q.sessionId)
           THEN Finish(r, storage, Response("turnNext", q.sessionId, q.userId, 404, FALSE, 0, <<>>))
           ELSE IF getGameSession(storage, q.sessionId).gmId # q.userId
           THEN Finish(r, storage, Response("turnNext", q.sessionId, q.userId, 403, FALSE, 0, <<>>))
           ELSE Continue(r, storage, [q EXCEPT !.pc = "readSession"])

\* advanceToNextPlayer: this.getGameSession(sessionId)
TurnReadSession(r) ==
    LET q == inflight[r]
    IN  /\ At(r, "turnNext", "readSession")
        /\ IF ~HasSession(storage, q.sessionId)
           THEN Finish(r, storage, Response("turnNext", q.sessionId, q.userId, 500, FALSE, 0, <<>>))
           ELSE Continue(r, storage,
                         [q EXCEPT !.pc = "selectPlayers",
                                   !.turn = getGameSession(storage, q.sessionId).currentTurn])

\* advanceToNextPlayer: SELECT the players ORDER BY turn_order, and the next
\* player computed from them
TurnSelectPlayers(r) ==
    LET q == inflight[r]
    IN  /\ At(r, "turnNext", "selectPlayers")
        /\ IF TurnPlayers(storage, q.sessionId) = <<>>
           THEN Finish(r, storage, Response("turnNext", q.sessionId, q.userId, 500, FALSE, 0, <<>>))
           ELSE LET result == advanceResult(storage, q.sessionId)
                IN  Continue(r, storage,
                             [q EXCEPT !.pc = IF result.turnIncremented THEN "increment" ELSE "clear",
                                       !.next = result.nextPlayerId,
                                       !.wrap = result.turnIncremented])

\* advanceToNextPlayer: UPDATE game_sessions SET current_turn = (session.currentTurn || 1) + 1
TurnIncrement(r) ==
    LET q == inflight[r]
    IN  /\ At(r, "turnNext", "increment")
        /\ Continue(r,
                    [storage EXCEPT !.sessions = Array([i \in DOMAIN storage.sessions |->
                        LET e == storage.sessions[i]
                        IN  IF e.id = q.sessionId
                            THEN [e EXCEPT !.currentTurn = OrInt(q.turn, 1) + 1]
                            ELSE e])],
                    [q EXCEPT !.pc = "clear"])

\* advanceToNextPlayer: UPDATE ... SET is_active_turn = false WHERE session_id = s
TurnClear(r) ==
    LET q == inflight[r]
    IN  /\ At(r, "turnNext", "clear")
        /\ Continue(r, ClearActiveTurns(storage, q.sessionId), [q EXCEPT !.pc = "set"])

\* advanceToNextPlayer: UPDATE ... SET is_active_turn = true WHERE user_id = next
TurnSet(r) ==
    LET q == inflight[r]
    IN  /\ At(r, "turnNext", "set")
        /\ Continue(r, MarkActiveTurn(storage, q.sessionId, q.next), [q EXCEPT !.pc = "readBack"])

\* the route's second storage.getGameSession(sessionId); then the broadcast
\* and the response
TurnReadBack(r) ==
    LET q == inflight[r]
        currentTurn == IF HasSession(storage, q.sessionId)
                       THEN OrInt(getGameSession(storage, q.sessionId).currentTurn, 1)
                       ELSE 1
    IN  /\ At(r, "turnNext", "readBack")
        /\ Finish(r, storage,
                  Response("turnNext", q.sessionId, q.userId, 200, q.wrap, q.next,
                           <<Event("turn_advanced", q.sessionId, q.next, currentTurn)>>))

\* POST /api/sessions/:sessionId/words arrives, with a word and a meaning
WordArrives(sessionId, userId, word) ==
    /\ Len(inflight) < ConcRequests
    /\ storage.wordCounter + Len(inflight) <= ConcWordId
    /\ Len(storage.wordOwners) + Len(inflight) < ConcOwnerRows
    /\ inflight' = Append(inflight, Request("words", "find", sessionId, userId, word))
    /\ NothingSent
    /\ UNCHANGED <<storage, resp, users, now>>

\* storage.findWordByText(sessionId, word)
WordFind(r) ==
    LET q == inflight[r]
    IN  /\ At(r, "words", "find")
        /\ IF HasWordWithText(storage, q.sessionId, q.text)
           THEN Continue(r, storage,
                         [q EXCEPT !.pc = "addOwner", !.wrap = TRUE,
                                   !.wordId = findWordByText(storage, q.sessionId, q.text).id])
           ELSE Continue(r, storage, [q EXCEPT !.pc = "create"])

\* storage.createWord({..., potency: null, isApproved: false})
WordCreate(r) ==
    LET q == inflight[r]
        w == [word |-> q.text, sessionId |-> q.sessionId, meaning |-> "m1",
              category |-> "noun", potency |-> NullInt, isApproved |-> FALSE]
    IN  /\ At(r, "words", "create")
        /\ Continue(r, createWord(storage, w),
                    [q EXCEPT !.pc = "addOwner", !.wordId = createdWord(storage, w).id])

\* storage.addWordOwner(word.id, userId): the INSERT (the SELECT after it
\* only feeds a log line)
WordAddOwner(r) ==
    LET q == inflight[r]
    IN  /\ At(r, "words", "addOwner")
        /\ Continue(r, addWordOwner(storage, q.wordId, q.userId), [q EXCEPT !.pc = "getOwners"])

\* storage.getWordOwners(word.id); then the broadcast and the response
WordGetOwners(r) ==
    LET q == inflight[r]
    IN  /\ At(r, "words", "getOwners")
        /\ Finish(r, storage,
                  Response("words", q.sessionId, q.userId, 200, q.wrap, q.wordId,
                           <<Event(IF q.wrap THEN "word_ownership_updated" ELSE "word_created",
                                   q.sessionId, q.userId, q.wordId)>>))

NextConc ==
    \/ CreateSession(ConcUsers, 1, {"A"})
    \/ JoinArrives(ConcUsers, "A")
    \/ \E s \in SessionIds : \E u \in Callers(s) : TurnNextArrives(s, u)
    \/ \E s \in SessionIds : \E u \in Callers(s) : WordArrives(s, u, "a")
    \/ \E r \in 1..Len(inflight) : JoinGetSession(r)
    \/ \E r \in 1..Len(inflight) : JoinGetPlayer(r)
    \/ \E r \in 1..Len(inflight) : JoinCountPlayers(r)
    \/ \E r \in 1..Len(inflight) : JoinInsert(r)
    \/ \E r \in 1..Len(inflight) : JoinRecalcSelect(r)
    \/ \E r \in 1..Len(inflight) : JoinRecalcUpdate(r)
    \/ \E r \in 1..Len(inflight) : JoinClear(r)
    \/ \E r \in 1..Len(inflight) : JoinSet(r)
    \/ \E r \in 1..Len(inflight) : JoinAddSelect(r)
    \/ \E r \in 1..Len(inflight) : JoinAddUpdate(r)
    \/ \E r \in 1..Len(inflight) : TurnAuth(r)
    \/ \E r \in 1..Len(inflight) : TurnReadSession(r)
    \/ \E r \in 1..Len(inflight) : TurnSelectPlayers(r)
    \/ \E r \in 1..Len(inflight) : TurnIncrement(r)
    \/ \E r \in 1..Len(inflight) : TurnClear(r)
    \/ \E r \in 1..Len(inflight) : TurnSet(r)
    \/ \E r \in 1..Len(inflight) : TurnReadBack(r)
    \/ \E r \in 1..Len(inflight) : WordFind(r)
    \/ \E r \in 1..Len(inflight) : WordCreate(r)
    \/ \E r \in 1..Len(inflight) : WordAddOwner(r)
    \/ \E r \in 1..Len(inflight) : WordGetOwners(r)

SpecConc == InitConc /\ [][NextConc]_vars

-----------------------------------------------------------------------------
(* SpecJoin: players join one session of the database until it is full, the
   join requests in flight together as in SpecConc. *)

NextJoin ==
    \/ CreateSession(FullUsers, 1, {"A"})
    \/ JoinArrives(FullUsers, "A")
    \/ \E r \in 1..Len(inflight) : JoinGetSession(r)
    \/ \E r \in 1..Len(inflight) : JoinGetPlayer(r)
    \/ \E r \in 1..Len(inflight) : JoinCountPlayers(r)
    \/ \E r \in 1..Len(inflight) : JoinInsert(r)
    \/ \E r \in 1..Len(inflight) : JoinRecalcSelect(r)
    \/ \E r \in 1..Len(inflight) : JoinRecalcUpdate(r)
    \/ \E r \in 1..Len(inflight) : JoinClear(r)
    \/ \E r \in 1..Len(inflight) : JoinSet(r)
    \/ \E r \in 1..Len(inflight) : JoinAddSelect(r)
    \/ \E r \in 1..Len(inflight) : JoinAddUpdate(r)

SpecJoin == InitConc /\ [][NextJoin]_vars

-----------------------------------------------------------------------------
(* SpecPlay: a whole game of one session: players join, the game master
   submits encounters and edits nerve, turns and prep turns advance, words
   are submitted and approved.  One request at a time. *)

PlayBodies == { Body("s1", Undefined, "a", Undefined, Undefined) }

NextPlay ==
    \/ CreateSession(PlayUsers, 1, {"A"})
    \/ Join(PlayUsers, {"A"})
    \/ SubmitEncounter(PlayBodies, PlayWordId)
    \/ TurnNext(PlayTurn)
    \/ PrepNextWord(PlayPrepTurn)
    \/ \E s \in SessionIds, target \in 2..PlayUsers :
          PatchNerve(s, getGameSession(storage, s).gmId, target, Num(1))
    \/ SubmitWord(PlayWordId, PlayOwnerRows, {"b"}, {"m1"})
    \/ Approve({2})

SpecPlay == Init /\ [][NextPlay]_vars

-----------------------------------------------------------------------------
(* SpecRace: the approval of a word and a nerve edit by the game master,
   against the database, in flight together as in SpecConc.  The session,
   its players and its word are there before the first race; inflight holds
   the two requests of a race, answered ones included, until the next race
   begins. *)

\* the request has been answered: 200, or refused
Over(q) == q.pc \in {"answered", "refused"}

\* no request is being served
Quiet == \A r \in 1..Len(inflight) : Over(inflight[r])

\* a request arrives while no other of its kind is part of the race; when
\* both requests of a race have been answered the next race begins, and the
\* answered requests are forgotten
Arrives(q) ==
    /\ Quiet \/ \A r \in 1..Len(inflight) : inflight[r].op # q.op
    /\ inflight' = IF \E r \in 1..Len(inflight) : inflight[r].op = q.op
                   THEN <<q>> ELSE Append(inflight, q)
    /\ NothingSent
    /\ UNCHANGED <<storage, resp, users, now>>

\* the request goes on to its next statement after a broadcast
ContinueAfter(r, st, q, events) ==
    /\ storage' = st
    /\ inflight' = [inflight EXCEPT ![r] = q]
    /\ wire' = Broadcasts(events)
    /\ UNCHANGED <<resp, users, now, sockets, sessionConnections, client>>

\* res.json / res.status(...).json: the request is answered
Answer(r, st, response) ==
    /\ storage' = st
    /\ inflight' = [inflight EXCEPT ![r].pc = IF response.status = 200
                                              THEN "answered" ELSE "refused"]
    /\ resp' = response
    /\ wire' = Broadcasts(response.events)
    /\ UNCHANGED <<users, now, sockets, sessionConnections, client>>

\* POST /api/sessions/:id/words/:wordId/approve arrives
ApproveArrives(sessionId, wordId, userId, potency) ==
    Arrives([Request("approve", "auth", sessionId, userId, "") EXCEPT
                !.wordId = wordId, !.n = potency])

\* the checks of the body, storage.getGameSession(sessionId) and the game
\* master check
ApproveAuth(r) ==
    LET q == inflight[r]
    IN  /\ At(r, "approve", "auth")
        /\ IF q.userId = NullInt \/ q.n = NullInt \/ q.n < -2 \/ q.n > 2
           THEN Answer(r, storage, Response("approve", q.sessionId, q.userId, 400, FALSE, q.wordId, <<>>))
           ELSE IF ~HasSession(storage, q.sessionId)
           THEN Answer(r, storage, Response("approve", q.sessionId, q.userId, 404, FALSE, q.wordId, <<>>))
           ELSE IF getGameSession(storage, q.sessionId).gmId # q.userId
           THEN Answer(r, storage, Response("approve", q.sessionId, q.userId, 403, FALSE, q.wordId, <<>>))
           ELSE Continue(r, storage, [q EXCEPT !.pc = "approveWord"])

\* storage.approveWord(wordId, potency)
ApproveWord(r) ==
    LET q == inflight[r]
    IN  /\ At(r, "approve", "approveWord")
        /\ IF approveWordThrows(storage, q.wordId)
           THEN Answer(r, storage, Response("approve", q.sessionId, q.userId, 500, FALSE, q.wordId, <<>>))
           ELSE Continue(r, approveWord(storage, q.wordId, q.n), [q EXCEPT !.pc = "getOwners"])

\* the owner loop has reached owner i of the list: on to that owner, or the
\* word_approved broadcast and the response when the list is over
ApproveLoop(r, st, q, i, events) ==
    IF i > Len(q.list)
    THEN Answer(r, st, Response("approve", q.sessionId, q.userId, 200, TRUE, q.wordId,
                                Append(events, Event("word_approved", q.sessionId, q.userId,
                                                     q.wordId))))
    ELSE ContinueAfter(r, st, [q EXCEPT !.pc = "getPlayer", !.i = i, !.next = q.list[i]], events)

\* storage.getWordOwners(wordId)
ApproveGetOwners(r) ==
    LET q == inflight[r]
    IN  /\ At(r, "approve", "getOwners")
        /\ ApproveLoop(r, storage, [q EXCEPT !.list = getWordOwners(storage, q.wordId)], 1, <<>>)

\* storage.getPlayerInSession(sessionId, ownerId), and the new nerve computed
\* from the row that was read
ApproveGetPlayer(r) ==
    LET q == inflight[r]
    IN  /\ At(r, "approve", "getPlayer")
        /\ IF HasPlayerInSession(storage, q.sessionId, q.next)
           THEN Continue(r, storage,
                         [q EXCEPT !.pc = "updateNerve",
                                   !.turn = ApprovedNerve(getPlayerInSession(storage, q.sessionId,
                                                                             q.next).nerve, q.n)])
           ELSE ApproveLoop(r, storage, q, q.i + 1, <<>>)

\* storage.updatePlayerNerve(sessionId, ownerId, newNerve), then the
\* nerve_updated broadcast
ApproveUpdateNerve(r) ==
    LET q == inflight[r]
    IN  /\ At(r, "approve", "updateNerve")
        /\ ApproveLoop(r, updatePlayerNerve(storage, q.sessionId, q.next, q.turn), q, q.i + 1,
                       <<Event("nerve_updated", q.sessionId, q.next, q.turn)>>)

\* PATCH /api/sessions/:id/players/:targetUserId/nerve arrives
NerveArrives(sessionId, userId, targetUserId, nerve) ==
    Arrives([Request("nerve", "auth", sessionId, userId, "") EXCEPT
                !.next = targetUserId, !.n = nerve])

\* storage.getGameSession(sessionId), the game master check and the parse of
\* the body
NerveAuth(r) ==
    LET q == inflight[r]
    IN  /\ At(r, "nerve", "auth")
        /\ IF ~HasSession(storage, q.sessionId)
           THEN Answer(r, storage, Response("nerve", q.sessionId, q.userId, 404, FALSE, 0, <<>>))
           ELSE IF getGameSession(storage, q.sessionId).gmId # q.userId
           THEN Answer(r, storage, Response("nerve", q.sessionId, q.userId, 403, FALSE, 0, <<>>))
           ELSE IF q.n < Num(0) \/ q.n > Num(8)
           THEN Answer(r, storage, Response("nerve", q.sessionId, q.userId, 500, FALSE, 0, <<>>))
           ELSE Continue(r, storage, [q EXCEPT !.pc = "update"])

\* storage.updatePlayerNerve(sessionId, targetUserId, nerve); then the
\* broadcast and the response
NerveUpdate(r) ==
    LET q == inflight[r]
    IN  /\ At(r, "nerve", "update")
        /\ IF updatePlayerNerveThrows(storage, q.n)
           THEN Answer(r, storage, Response("nerve", q.sessionId, q.userId, 500, FALSE, 0, <<>>))
           ELSE Answer(r, updatePlayerNerve(storage, q.sessionId, q.next, q.n),
                       Response("nerve", q.sessionId, q.userId, 200, FALSE, q.next,
                                <<Event("nerve_updated", q.sessionId, q.next, q.n)>>))

RaceNerves == {Num(4)}

RacePotencies == {-1, 2}

NextRace ==
    \/ inflight = <<>> /\ CreateSession(RaceUsers, 1, {"A"})
    \/ inflight = <<>> /\ Join(RaceUsers, {"A"})
    \/ inflight = <<>> /\ SubmitWord(RaceWordId, RaceOwnerRows, {"a"}, {"m1"})
    \/ \E s \in SessionIds, w \in WordIds, potency \in RacePotencies : \E u \in Callers(s) :
          ApproveArrives(s, w, u, potency)
    \/ \E s \in SessionIds, target \in 1..RaceUsers, nerve \in RaceNerves : \E u \in Callers(s) :
          NerveArrives(s, u, target, nerve)
    \/ \E r \in 1..Len(inflight) : ApproveAuth(r)
    \/ \E r \in 1..Len(inflight) : ApproveWord(r)
    \/ \E r \in 1..Len(inflight) : ApproveGetOwners(r)
    \/ \E r \in 1..Len(inflight) : ApproveGetPlayer(r)
    \/ \E r \in 1..Len(inflight) : ApproveUpdateNerve(r)
    \/ \E r \in 1..Len(inflight) : NerveAuth(r)
    \/ \E r \in 1..Len(inflight) : NerveUpdate(r)

SpecRace == InitConc /\ [][NextRace]_vars

-----------------------------------------------------------------------------
(* Properties *)

\* the players of a session, in the order they joined
PlayersOf(st, s) == SelectSeq(st.sessionPlayers, LAMBDA p : InSession(s, p))

ActivePlayers(st, s) ==
    {PlayersOf(st, s)[i].userId : i \in {j \in 1..Len(PlayersOf(st, s)) : PlayersOf(st, s)[j].isActiveTurn}}

TurnOrders(st, s) == {PlayersOf(st, s)[i].turnOrder : i \in 1..Len(PlayersOf(st, s))}

\* the storage after k consecutive advanceToNextPlayer(s) calls
RECURSIVE AdvanceTimes(_, _, _)
AdvanceTimes(st, s, k) ==
    IF k = 0 THEN st ELSE advanceToNextPlayer(AdvanceTimes(st, s, k - 1), s)

\* how many of those k calls return turnIncremented = true
RECURSIVE Increments(_, _, _)
Increments(st, s, k) ==
    IF k = 0 THEN 0
    ELSE Increments(st, s, k - 1)
         + (IF advanceResult(AdvanceTimes(st, s, k - 1), s).turnIncremented THEN 1 ELSE 0)

\* C1: whenever every request has been answered, each session has at most
\* one player whose isActiveTurn is true.
C1_AtMostOneActive ==
    inflight = <<>> => \A s \in SessionIds : Cardinality(ActivePlayers(storage, s)) <= 1

\* C8: no session holds two words with the same text.
C8_WordTextUnique ==
    \A i, j \in 1..Len(storage.words) :
       (i # j /\ storage.words[i].sessionId = storage.words[j].sessionId)
          => storage.words[i].word # storage.words[j].word

\* C2: in a session with N >= 1 players one of whom is active, N consecutive
\* advanceToNextPlayer calls make the same player active again, currentTurn
\* has grown by exactly 1 and exactly one call returned turnIncremented.
C2_AdvanceRoundTrip ==
    \A s \in SessionIds :
       LET n == Len(TurnPlayers(storage, s))
       IN  (n >= 1 /\ ActivePlayers(storage, s) # {}) =>
              /\ ActivePlayers(AdvanceTimes(storage, s, n), s) = ActivePlayers(storage, s)
              /\ getGameSession(AdvanceTimes(storage, s, n), s).currentTurn
                    = getGameSession(storage, s).currentTurn + 1
              /\ Increments(storage, s, n) = 1

\* a turn/next request has just wrapped the order of three players around
C2_Witness ==
    /\ resp.op = "turnNext" /\ resp.status = 200 /\ resp.flag
    /\ Len(TurnPlayers(storage, resp.sessionId)) = 3
    /\ getGameSession(storage, resp.sessionId).currentTurn = 2
    /\ ActivePlayers(storage, resp.sessionId) # {}

\* C3: the turnOrder values of a session's players are pairwise distinct and
\* are exactly 0..n-1, and the player who has just joined as the k-th holds
\* turnOrder k-1.
C3_TurnOrderDense ==
    /\ \A s \in SessionIds :
          LET ps == PlayersOf(storage, s)
          IN  /\ \A i, j \in 1..Len(ps) : i # j => ps[i].turnOrder # ps[j].turnOrder
              /\ TurnOrders(storage, s) = 0..(Len(ps) - 1)
    /\ (resp.op = "join" /\ resp.status = 200 /\ resp.flag) =>
          getPlayerInSession(storage, resp.sessionId, resp.userId).turnOrder
             = Len(PlayersOf(storage, resp.sessionId)) - 1

\* C4: after recalculateTurnOrder(s) the players of s hold 0..n-1, each once,
\* a player with more nerve (or the same nerve and an earlier joinedAt) before
\* one with less, and a second run changes nothing.
C4_RecalculateTurnOrder ==
    \A s \in SessionIds :
       LET r  == recalculateTurnOrder(storage, s)
           ps == PlayersOf(r, s)
       IN  /\ TurnOrders(r, s) = 0..(Len(ps) - 1)
           /\ \A i, j \in 1..Len(ps) : i # j => ps[i].turnOrder # ps[j].turnOrder
           /\ \A i, j \in 1..Len(ps) :
                 (\/ ps[i].nerve > ps[j].nerve
                  \/ (ps[i].nerve = ps[j].nerve /\ ps[i].joinedAt < ps[j].joinedAt))
                 => ps[i].turnOrder < ps[j].turnOrder
           /\ recalculateTurnOrder(r, s) = r

\* a new encounter has just reordered three players: one who joined later
\* stands before one who joined earlier, and two share a nerve value
C4_Witness ==
    /\ resp.op = "encounter" /\ resp.status = 200 /\ resp.flag
    /\ LET ps == PlayersOf(storage, resp.sessionId)
       IN  /\ Len(ps) = 3
           /\ \E i, j \in 1..3 : i < j /\ ps[i].joinedAt < ps[j].joinedAt
                                      /\ ps[i].turnOrder > ps[j].turnOrder
           /\ \E i, j \in 1..3 : i # j /\ ps[i].nerve = ps[j].nerve
           /\ recalculateTurnOrder(storage, resp.sessionId) = storage

\* C5: right after the game master has submitted an encounter that differs
\* from the current one, isPrepTurn = true, currentPrepWordIndex = 0,
\* currentPrepWordTurnCount = 0, currentTurn = 1, and if the session has
\* players exactly the turnOrder-0 player is active.
C5_NewEncounterStartsPrep ==
    (resp.op = "encounter" /\ resp.status = 200 /\ resp.flag) =>
       LET s       == resp.sessionId
           session == getGameSession(storage, s)
           ps      == PlayersOf(storage, s)
       IN  /\ session.isPrepTurn = TRUE
           /\ session.currentPrepWordIndex = 0
           /\ session.currentPrepWordTurnCount = 0
           /\ session.currentTurn = 1
           /\ Len(ps) > 0 =>
                ActivePlayers(storage, s)
                   = {ps[i].userId : i \in {j \in 1..Len(ps) : ps[j].turnOrder = 0}}

\* the storage after k consecutive prep/next-word requests for session s
RECURSIVE NextWordTimes(_, _, _)
NextWordTimes(st, s, k) ==
    IF k = 0 THEN st ELSE PrepNextWordStore(NextWordTimes(st, s, k - 1), s)

\* C7: from the state a new-encounter submit leaves a session with N >= 1
\* players in, isPrepTurn is true after each of the first 3N-1 prep/next-word
\* calls and false after call 3N.
C7_PrepEndsOnCall3N ==
    (resp.op = "encounter" /\ resp.status = 200 /\ resp.flag) =>
       LET s == resp.sessionId
           n == Len(getSessionPlayers(storage, s))
       IN  n >= 1 =>
              /\ \A k \in 1..(3 * n - 1) :
                    getGameSession(NextWordTimes(storage, s, k), s).isPrepTurn = TRUE
              /\ getGameSession(NextWordTimes(storage, s, 3 * n), s).isPrepTurn = FALSE

\* C6: right after a new-encounter submit that carries noun, verb and
\* adjective, the dictionary of the session holds each of the three words,
\* approved, with potency null, without owners, in its category.
C6_EncounterWordsInDictionary ==
    (resp.op = "encounter" /\ resp.status = 200 /\ resp.flag) =>
       LET s       == resp.sessionId
           session == getGameSession(storage, s)
           ws      == getSessionWords(storage, s)
           Has(text, category) ==
              \E i \in 1..Len(ws) :
                 /\ ws[i].word = text
                 /\ ws[i].category = category
                 /\ ws[i].isApproved = TRUE
                 /\ ws[i].potency = NullInt
                 /\ getWordOwners(storage, ws[i].id) = <<>>
       IN  (Truthy(session.encounterNoun) /\ Truthy(session.encounterVerb)
               /\ Truthy(session.encounterAdjective)) =>
              /\ Has(session.encounterNoun, "noun")
              /\ Has(session.encounterVerb, "verb")
              /\ Has(session.encounterAdjective, "adjective")

\* C9: a word submit whose text already exists in the session leaves the
\* word rows as they were, and the owners of the word are the old owners and
\* the submitter: one more if the submitter was not an owner, none otherwise.
C9_ExistingWordGainsOwner ==
    [][(resp'.op = "words" /\ resp'.status = 200 /\ resp'.flag) =>
          LET old == getWordOwners(storage, resp'.ref)
              new == getWordOwners(storage', resp'.ref)
          IN  /\ storage'.words = storage.words
              /\ Range(new) = Range(old) \cup {resp'.userId}
              /\ Len(new) = Len(old) + (IF resp'.userId \in Range(old) THEN 0 ELSE 1)
              /\ Cardinality(Range(new)) = Len(new)]_vars

\* the nerve of every player, by session and user
Nerves(st) == {<<st.sessionPlayers[i].sessionId, st.sessionPlayers[i].userId, st.sessionPlayers[i].nerve>> : i \in 1..Len(st.sessionPlayers)}

\* C10: an approve request changes the word and its owners' nerve only when
\* the caller is the game master of the session the word belongs to; from any
\* other caller it is refused, and the words, the nerve of every player and
\* the broadcasts are as before.
C10_ApproveOnlyBySessionGM ==
    [][(resp'.op = "approve" /\ HasWord(storage, resp'.ref)) =>
          LET word == getWord(storage, resp'.ref)
              isGM == /\ HasSession(storage, word.sessionId)
                      /\ getGameSession(storage, word.sessionId).gmId = resp'.userId
          IN  ~isGM =>
                 /\ resp'.status \in {400, 403, 404}
                 /\ resp'.events = <<>>
                 /\ storage'.words = storage.words
                 /\ Nerves(storage') = Nerves(storage)]_vars

\* the nerve the approval of a word with potency p is to leave an owner with
\* who had nerve n: max(1, n - p), min(maxNerve, n + |p|), or n
NerveAfterApproval(n, maxNerve, p) ==
    IF p > 0 THEN Max(Num(1), n - Num(p))
    ELSE IF p < 0 THEN Min(maxNerve, n + Num(0 - p))
    ELSE n

\* the rows of the players of session s whose user is among owners
OwnerRows(st, s, owners) ==
    {i \in 1..Len(st.sessionPlayers) :
        st.sessionPlayers[i].sessionId = s /\ st.sessionPlayers[i].userId \in owners}

\* C11: a successful approve with potency p takes every owner of the word who
\* is a player of the session from nerve n to max(1, n - p) when p > 0, to
\* min(maxNerve, n + |p|) when p < 0 and to n when p = 0, and leaves the nerve
\* of every other player as it was.
C11_ApprovalMovesOwnersNerve ==
    [][(resp'.op = "approve" /\ resp'.status = 200 /\ HasWord(storage', resp'.ref)) =>
          LET p      == getWord(storage', resp'.ref).potency
              owners == OwnerRows(storage, resp'.sessionId, Range(getWordOwners(storage, resp'.ref)))
          IN  \A i \in 1..Len(storage.sessionPlayers) :
                 storage'.sessionPlayers[i].nerve =
                    IF i \in owners
                    THEN NerveAfterApproval(storage.sessionPlayers[i].nerve,
                                            storage.sessionPlayers[i].maxNerve, p)
                    ELSE storage.sessionPlayers[i].nerve]_vars

\* C12: a successful approve with a positive potency leaves no owner of the
\* word with more nerve than the owner had before it.
C12_PositivePotencyNeverRaisesNerve ==
    [][(/\ resp'.op = "approve" /\ resp'.status = 200 /\ HasWord(storage', resp'.ref)
        /\ getWord(storage', resp'.ref).potency > 0) =>
          \A i \in OwnerRows(storage, resp'.sessionId, Range(getWordOwners(storage, resp'.ref))) :
             storage'.sessionPlayers[i].nerve <= storage.sessionPlayers[i].nerve]_vars

\* C13: the nerve of every player is a whole number from 0 to the player's
\* maxNerve.
C13_NerveWithinBounds ==
    \A i \in 1..Len(storage.sessionPlayers) :
       LET e == storage.sessionPlayers[i]
       IN  IsInteger(e.nerve) /\ Num(0) <= e.nerve /\ e.nerve <= e.maxNerve

\* C14: a word that is approved with a potency keeps that potency and its
\* meaning in every later state, whatever request is served.
C14_ApprovedWordImmutable ==
    [][\A i \in 1..Len(storage.words) :
          LET w == storage.words[i]
          IN  (w.isApproved /\ w.potency # NullInt) =>
                 /\ HasWord(storage', w.id)
                 /\ getWord(storage', w.id).potency = w.potency
                 /\ getWord(storage', w.id).meaning = w.meaning]_vars

\* C15: the potency of every word of the dictionary is null or a whole
\* number from -2 to 2.
C15_PotencyWithinBounds ==
    \A i \in 1..Len(storage.words) :
       storage.words[i].potency = NullInt \/ storage.words[i].potency \in -2..2

\* C16: encounterThreat, encounterDifficulty and encounterLength of every
\* session are each unset or from 1 to 10.
C16_EncounterStatsWithinBounds ==
    \A i \in 1..Len(storage.sessions) :
       LET e == storage.sessions[i]
       IN  /\ e.encounterThreat = NullInt \/ e.encounterThreat \in 1..10
           /\ e.encounterDifficulty = NullInt \/ e.encounterDifficulty \in 1..10
           /\ e.encounterLength = NullInt \/ e.encounterLength \in 1..10

\* the meanings define-word has stored for the session: the words they are of
DefinedWords(st, s) == {m.word : m \in getGameSession(st, s).prepWordMeanings}

\* the noun, the verb and the adjective of the encounter of session s
EncounterWords(st, s) ==
    {w \in {getGameSession(st, s).encounterNoun, getGameSession(st, s).encounterVerb,
            getGameSession(st, s).encounterAdjective} : Truthy(w)}

\* C19: a set-potency request for a word of the encounter succeeds only when
\* a define-word request has supplied a meaning for that word, and a
\* set-potency request that fails leaves the dictionary as it was.
C19_SetPotencyNeedsMeaning ==
    [][resp'.op = "setPotency" =>
          IF resp'.status = 200
          THEN getWord(storage', resp'.ref).word \in EncounterWords(storage, resp'.sessionId)
                  => getWord(storage', resp'.ref).word \in DefinedWords(storage, resp'.sessionId)
          ELSE storage'.words = storage.words /\ storage'.wordOwners = storage.wordOwners]_vars

\* the current prep word of session s is in the dictionary without a potency
PrepWordWithoutPotency(st, s) ==
    /\ HasSession(st, s)
    /\ Truthy(CurrentPrepWord(getGameSession(st, s)))
    /\ HasWordWithText(st, s, CurrentPrepWord(getGameSession(st, s)))
    /\ findWordByText(st, s, CurrentPrepWord(getGameSession(st, s))).potency = NullInt

\* C20: a modify-stats or adjust-encounter-stat request served while the
\* current prep word has no potency in the dictionary fails, and threat,
\* difficulty, length and the owners of the words are as before.
C20_StatNeedsPotency ==
    [][(/\ resp'.op \in {"modifyStats", "adjustStat"}
        /\ PrepWordWithoutPotency(storage, resp'.sessionId)) =>
          /\ resp'.status # 200
          /\ storage'.sessions = storage.sessions
          /\ storage'.wordOwners = storage.wordOwners]_vars

\* a word of the request is the word the session stores: the same text, or
\* none stored and none submitted
SameWord(stored, given) == stored = given \/ (stored = NullStr /\ given = Undefined)

\* the body b submits the encounter the session stores
SameEncounter(session, b) ==
    /\ session.encounterSentence = b.sentence
    /\ SameWord(session.encounterNoun, b.noun)
    /\ SameWord(session.encounterVerb, b.verb)
    /\ SameWord(session.encounterAdjective, b.adjective)

\* C18: an encounter submit by the game master resets the turns and enters
\* prep if and only if its sentence, noun, verb or adjective differs from what
\* the session stores; a submit of exactly the stored encounter (no words
\* stored and none submitted included) leaves currentTurn, the active flags
\* and the prep flags as they were.
C18_NewEncounterIffDiffers ==
    [][\A s \in SessionIds, b \in TurnBodies :
          LET session == getGameSession(storage, s)
          IN  PatchEncounter(s, session.gmId, b.sentence, b.threat, b.difficulty, b.length, b.noun, b.verb, b.adjective) =>
                 IF SameEncounter(session, b)
                 THEN /\ ~resp'.flag
                      /\ getGameSession(storage', s).currentTurn = session.currentTurn
                      /\ getGameSession(storage', s).isPrepTurn = session.isPrepTurn
                      /\ getGameSession(storage', s).currentPrepWordIndex = session.currentPrepWordIndex
                      /\ getGameSession(storage', s).currentPrepWordTurnCount = session.currentPrepWordTurnCount
                      /\ ActivePlayers(storage', s) = ActivePlayers(storage, s)
                 ELSE resp'.flag]_vars

\* C17: no session has more than 5 players, however the join requests for it
\* interleave.
C17_AtMostFivePlayers ==
    \A s \in SessionIds : Len(getSessionPlayers(storage, s)) <= 5

\* C21: a message is sent to a socket only when it is one of the broadcasts of
\* the handler that just ran, the socket is open, and the socket has sent
\* join_session for the session of the message; so a socket that only
\* connected, one that joined another session, and one that has closed
\* receive nothing, and nothing is kept for later.
C21_DeliveredOnlyToSubscribers ==
    \A d \in wire :
        /\ sockets[d.ws].readyState = "OPEN"
        /\ d.message.sessionId \in sockets[d.ws].sent
        /\ d.message \in Range(resp.events)

\* a player_joined of one session reaches a subscriber of it, while the other
\* socket, open and subscribed only to the other session, receives nothing
C21_Witness ==
    \E d \in wire : \E c \in DOMAIN sockets :
        /\ d.message.type = "player_joined"
        /\ c # d.ws
        /\ sockets[c].readyState = "OPEN"
        /\ sockets[c].sent # {}
        /\ d.message.sessionId \notin sockets[c].sent
        /\ \A e \in wire : e.ws # c

\* C27: with six vowels and the dice d0, d1, ..., the generated word is
\* vowels[d1 - 1] ... vowels[dN - 1] (indices from 0), N being d0 / 2 rounded
\* up, one of 1, 2, 3; it depends on the vowels and the dice only.
C27_GeneratedWord ==
    LET dice == client.dice
    IN  dice # <<>> =>
           \E N \in 1..3 :
               /\ N + N \in {dice[1], dice[1] + 1}
               /\ client.word = [i \in 1..N |-> client.vowels[(dice[1 + i] - 1) + 1]]
               /\ client.rolls = [i \in 1..N |-> dice[1 + i]]

\* the dice 2, 4, 1 over a, e, i, o, u, y give "o"
C27_Witness ==
    /\ client.vowels = <<"a", "e", "i", "o", "u", "y">>
    /\ client.dice # <<>>
    /\ SubSeq(client.dice, 1, 3) = <<2, 4, 1>>
    /\ client.word = <<"o">>

\* C24: no two sessions have the same join code, whichever storage is in use.
C24_JoinCodeUnique ==
    \A i, j \in DOMAIN storage.sessions :
        storage.sessions[i].code = storage.sessions[j].code => i = j

\* C25: a nerve update by the game master is answered with success, and
\* nerve_updated is broadcast, only when the target user is a player of the
\* session.
C25_NerveTargetIsPlayer ==
    resp.op = "nerve" /\ (resp.status = 200 \/ resp.events # <<>>) =>
        HasPlayerInSession(storage, resp.sessionId, resp.ref)

\* C30: after a successful set-potency request with word, meaning m and
\* potency p, the dictionary of the session holds that word with meaning m and
\* potency p; so for p = 0, and for a word that was not yet in the dictionary.
C30_SetPotencyStoresPotency ==
    [][\A s \in SessionIds, p \in DefinePotencies :
          PostSetPotency(s, "a", p, "m2", getGameSession(storage, s).gmId) /\ resp'.status = 200 =>
              \E w \in Range(getSessionWords(storage', s)) :
                  w.word = "a" /\ w.meaning = "m2" /\ w.potency = p]_vars

RECURSIVE Replay(_, _)
Replay(kind, calls) ==
    IF calls = <<>> THEN [st |-> NewStorage(kind), outcomes |-> <<>>]
    ELSE LET before == Replay(kind, SubSeq(calls, 1, Len(calls) - 1))
             r      == Apply(before.st, calls[Len(calls)], Len(before.st.sessionPlayers) + 1)
         IN  [st |-> r.st,
              outcomes |-> Append(before.outcomes,
                                  [throws |-> r.throws, value |-> r.value, flag |-> r.flag])]

\* the sessions, players and words of a storage; the ids of the player rows,
\* which each class numbers in its own way, left out
Contents(st) ==
    [sessions |-> st.sessions,
     players  |-> Array([i \in DOMAIN st.sessionPlayers |-> [st.sessionPlayers[i] EXCEPT !.id = 0]]),
     words    |-> st.words]

\* C26: the same storage calls made on a MemStorage and on a DatabaseStorage
\* throw at the same calls, return the same values and leave the same
\* sessions, players and words.
C26_StoragesInterchangeable ==
    LET mem == Replay("MemStorage", inflight)
        db  == Replay("DatabaseStorage", inflight)
    IN  /\ mem.outcomes = db.outcomes
        /\ Contents(mem.st) = Contents(db.st)

\* C28: advanceToNextPlayer on a session whose players are different users
\* with turn orders that differ, at most one of them active: the player after the active one
\* in ascending turnOrder becomes the only active player; from the last player
\* it is the first one, currentTurn grows by 1 and turnIncremented is true;
\* with no active player it is the first one and currentTurn stays.  For a
\* missing session or a session without players the call throws and the
\* storage stays as it was.
C28_AdvanceToNextPlayer ==
    [][resp'.op = "advanceToNextPlayer" =>
          LET s      == resp'.sessionId
              ps     == Range(PlayersOf(storage, s))
              orders == {p.turnOrder : p \in ps}
              active == {p \in ps : p.isActiveTurn}
              First(set) == (CHOOSE p \in set : \A q \in set : p.turnOrder <= q.turnOrder).userId
              later  == {p \in ps : \A a \in active : p.turnOrder > a.turnOrder}
              turn0  == getGameSession(storage, s).currentTurn
              turn1  == getGameSession(storage', s).currentTurn
          IN  IF ~HasSession(storage, s) \/ ps = {}
              THEN resp'.status = 500 /\ storage' = storage
              ELSE Cardinality(orders) = Cardinality(ps) /\ NullInt \notin orders
                      /\ Cardinality({p.userId : p \in ps}) = Cardinality(ps)
                      /\ Cardinality(active) <= 1 =>
                         /\ resp'.status = 200
                         /\ ActivePlayers(storage', s) = {resp'.ref}
                         /\ IF active = {}
                            THEN resp'.ref = First(ps) /\ ~resp'.flag /\ turn1 = turn0
                            ELSE IF later = {}
                            THEN resp'.ref = First(ps) /\ resp'.flag /\ turn1 = turn0 + 1
                            ELSE resp'.ref = First(later) /\ ~resp'.flag /\ turn1 = turn0]_vars

\* the last of three players was active: the call has made the first one
\* active and has incremented the turn
C28_Witness ==
    /\ resp.op = "advanceToNextPlayer" /\ resp.status = 200 /\ resp.flag
    /\ Len(PlayersOf(storage, resp.sessionId)) = 3
    /\ Cardinality(TurnOrders(storage, resp.sessionId)) = 3
    /\ NullInt \notin TurnOrders(storage, resp.sessionId)
    /\ getGameSession(storage, resp.sessionId).currentTurn = 2

\* the event names of the documentation
DocumentedTypes ==
    {"player_joined", "nerve_updated", "word_created", "word_ownership_updated",
     "word_approved", "combat_action", "encounter_updated", "turn_advanced",
     "prep_turn_advanced", "word_defined", "stats_modified", "stat_adjusted",
     "vowels_updated"}

\* C23, as stated: the type of every message a handler broadcasts is one of
\* the documented event names.
C23_BroadcastTypesDocumented ==
    \A e \in Range(resp.events) : e.type \in DocumentedTypes

\* C23, amended: the type of every message a handler broadcasts is one of the
\* documented event names or prep_word_meaning_defined, which define-word
\* broadcasts.
C23_BroadcastTypes ==
    \A e \in Range(resp.events) :
        \/ e.type \in DocumentedTypes
        \/ e.type = "prep_word_meaning_defined" /\ resp.op = "defineWord"

\* define-word has broadcast prep_word_meaning_defined, after a set-potency
\* that broadcast a documented word_defined left its word in the dictionary
C23_Witness ==
    /\ resp.op = "defineWord" /\ resp.status = 200
    /\ \E e \in Range(resp.events) : e.type = "prep_word_meaning_defined"
    /\ \E w \in Range(storage.words) : w.meaning = "m2"

\* C22: broadcasts leave in the order in which the changes they describe
\* were committed.  So once every request has been answered, the last
\* turn_advanced that was broadcast names the player the storage has as the
\* active one.
C22_LastBroadcastIsLastCommit ==
    inflight = <<>> /\ resp.op = "turnNext" /\ resp.status = 200 =>
        resp.ref \in ActivePlayers(storage, resp.sessionId)

\* the three stats of the encounter of session s
Stats(st, s) ==
    LET e == getGameSession(st, s)
    IN  [threat |-> e.encounterThreat, difficulty |-> e.encounterDifficulty,
         length |-> e.encounterLength]

\* C31: a stat-adjustment request of the prep phase (modify-stats or
\* adjust-encounter-stat) that succeeds changes at most one of threat,
\* difficulty and length of the encounter.
C31_StatAdjustmentChangesOneStat ==
    [][(resp'.op \in {"modifyStats", "adjustStat"} /\ resp'.status = 200) =>
          Cardinality({f \in {"threat", "difficulty", "length"} :
                          Stats(storage', resp'.sessionId)[f]
                             # Stats(storage, resp'.sessionId)[f]}) <= 1]_vars

\* C32: in every state currentPrepWordIndex of every session is 0, 1 or 2,
\* and while isPrepTurn is true currentPrepWordTurnCount is at least 0 and
\* less than the number of players of the session.
C32_PrepCountersInRange ==
    \A i \in 1..Len(storage.sessions) :
       LET e == storage.sessions[i]
       IN  /\ e.currentPrepWordIndex \in {0, 1, 2}
           /\ e.isPrepTurn =>
                 /\ 0 <= e.currentPrepWordTurnCount
                 /\ e.currentPrepWordTurnCount < Len(PlayersOf(storage, e.id))

\* C33: a join by a second or later player leaves turnOrder, isActiveTurn
\* and nerve of every player who was in the session as they were, leaves
\* currentTurn as it was, and gives the newcomer a turnOrder greater than
\* that of every other player and isActiveTurn = false.
C33_LaterJoinLeavesOthers ==
    [][(/\ resp'.op = "join" /\ resp'.status = 200 /\ resp'.flag
        /\ Len(PlayersOf(storage, resp'.sessionId)) >= 1) =>
          LET s == resp'.sessionId
              joined == getPlayerInSession(storage', s, resp'.userId)
          IN  /\ \A p \in Range(PlayersOf(storage, s)) :
                    LET q == getPlayerInSession(storage', s, p.userId)
                    IN  /\ q.turnOrder = p.turnOrder
                        /\ q.isActiveTurn = p.isActiveTurn
                        /\ q.nerve = p.nerve
                        /\ joined.turnOrder > OrInt(p.turnOrder, 0)
              /\ getGameSession(storage', s).currentTurn = getGameSession(storage, s).currentTurn
              /\ joined.turnOrder # NullInt
              /\ ~joined.isActiveTurn]_vars

\* a third player has joined a session whose players differ in nerve and
\* whose active player is not the first in turn
C33_Witness ==
    /\ resp.op = "join" /\ resp.status = 200 /\ resp.flag
    /\ Len(PlayersOf(storage, resp.sessionId)) = 3
    /\ \E p \in Range(PlayersOf(storage, resp.sessionId)) :
          p.nerve # Num(8) /\ p.userId # resp.userId
    /\ \E p \in Range(PlayersOf(storage, resp.sessionId)) :
          p.isActiveTurn /\ p.turnOrder > 0

\* who may send request op of the prep phase to session s: the active player,
\* and for every request but define-word the game master too
MayPrep(st, s, op) ==
    ActivePlayers(st, s) \cup
       (IF op = "defineWord" \/ ~HasSession(st, s) THEN {} ELSE {getGameSession(st, s).gmId})

\* C34: in a session that has an active player, a define-word request from
\* anybody but that player, and a prep/next-word or stat-adjustment request
\* from anybody but the game master or that player, is answered 403 and
\* leaves the storage as it was.
C34_PrepRequestsRoleGated ==
    [][(/\ resp'.op \in {"defineWord", "prepNextWord", "modifyStats", "adjustStat"}
        /\ ActivePlayers(storage, resp'.sessionId) # {}
        /\ resp'.userId \notin MayPrep(storage, resp'.sessionId, resp'.op)) =>
          resp'.status = 403 /\ storage' = storage]_vars

\* C35: when the approval of a word and a nerve edit by the game master on a
\* player who owns the word (once) have both been answered with success,
\* however their storage calls were interleaved, the nerve of the player is
\* what one of the two serial orders leaves: the nerve of the edit, or that
\* nerve moved by the potency of the approval.
C35_NerveWritesSerial ==
    \A a, e \in 1..Len(inflight) :
       LET approve == inflight[a]
           edit    == inflight[e]
       IN  (/\ approve.op = "approve" /\ approve.pc = "answered"
            /\ edit.op = "nerve" /\ edit.pc = "answered"
            /\ approve.sessionId = edit.sessionId
            /\ Cardinality({i \in 1..Len(approve.list) : approve.list[i] = edit.next}) = 1
            /\ HasPlayerInSession(storage, edit.sessionId, edit.next)) =>
              getPlayerInSession(storage, edit.sessionId, edit.next).nerve
                 \in {edit.n, ApprovedNerve(edit.n, approve.n)}

\* C36: with requests served one at a time, a session that has at least one
\* player has exactly one player whose isActiveTurn is true after every
\* completed request.
C36_ExactlyOneActive ==
    \A i \in 1..Len(storage.sessions) :
       LET players == PlayersOf(storage, storage.sessions[i].id)
       IN  Len(players) >= 1 =>
              Cardinality({j \in 1..Len(players) : players[j].isActiveTurn}) = 1

\* a prep/next-word request has just ended the prep phase of a session of
\* two players, one of them with a nerve the game master has set
C36_Witness ==
    /\ resp.op = "prepNextWord" /\ resp.status = 200 /\ ~resp.flag
    /\ ~getGameSession(storage, resp.sessionId).isPrepTurn
    /\ Len(PlayersOf(storage, resp.sessionId)) = 2
    /\ \E p \in Range(PlayersOf(storage, resp.sessionId)) : p.nerve = Num(1)
    /\ Cardinality(ActivePlayers(storage, resp.sessionId)) = 1

\* C37: a prep/next-word request served while isPrepTurn of the session is
\* false leaves it false, and leaves currentPrepWordIndex,
\* currentPrepWordTurnCount and the active player as they were.
C37_NextWordOutsidePrep ==
    [][(/\ resp'.op = "prepNextWord"
        /\ HasSession(storage, resp'.sessionId)
        /\ ~getGameSession(storage, resp'.sessionId).isPrepTurn) =>
          LET old == getGameSession(storage, resp'.sessionId)
              new == getGameSession(storage', resp'.sessionId)
          IN  /\ ~new.isPrepTurn
              /\ new.currentPrepWordIndex = old.currentPrepWordIndex
              /\ new.currentPrepWordTurnCount = old.currentPrepWordTurnCount
              /\ ActivePlayers(storage', resp'.sessionId)
                    = ActivePlayers(storage, resp'.sessionId)]_vars

C39_PotencyOnlyOnApproved ==
    \A i \in 1..Len(storage.words) :
       storage.words[i].potency # NullInt => storage.words[i].isApproved

\* C40: from every state in which a session with N >= 1 players is in the
\* prep phase, consecutive prep/next-word requests for it, with no other
\* request between them, make isPrepTurn false after at most 3N of them.
C40_PrepEndsWithin3N ==
    \A i \in 1..Len(storage.sessions) :
       LET s == storage.sessions[i].id
           n == Len(getSessionPlayers(storage, s))
       IN  (storage.sessions[i].isPrepTurn /\ n >= 1) =>
              \E k \in 1..(3 * n) :
                 ~getGameSession(NextWordTimes(storage, s, k), s).isPrepTurn

\* prep/next-word requests have taken a session of two players to the verb
\* and to its second round: the third request from here ends the prep phase,
\* the second does not
C40_Witness ==
    \E i \in 1..Len(storage.sessions) :
       LET e == storage.sessions[i]
       IN  /\ e.isPrepTurn
           /\ Len(getSessionPlayers(storage, e.id)) = 2
           /\ resp.op = "prepNextWord" /\ resp.status = 200
           /\ e.currentPrepWordIndex = 1 /\ e.currentPrepWordTurnCount = 1
           /\ getGameSession(NextWordTimes(storage, e.id, 2), e.id).isPrepTurn
           /\ ~getGameSession(NextWordTimes(storage, e.id, 3), e.id).isPrepTurn

=============================================================================
